---------------------------- MODULE Spec2Model ----------------------------
(***************************************************************************)
(* Model of the resource-pack conversion engine of miaopacks.py:           *)
(* get_version_operations (version path resolution),                       *)
(* process_version_conversion (removal, split, merge, transparency,        *)
(* sidecar propagation) and the on_confirm handler (temporary copy,        *)
(* pack_format rewrite, packaging, cleanup).                               *)
(*                                                                         *)
(* Strings that the code takes apart (version strings, relative paths)     *)
(* are sequences of tokens; a version string is a sequence of characters.  *)
(***************************************************************************)
EXTENDS Integers, Sequences, FiniteSets, TLC

(***************************************************************************)
(* Bounds of the model.                                                    *)
(***************************************************************************)
\* largest number of version-config files in the config directory
MaxConfigs == 2
\* largest number of files in the source pack besides pack.mcmeta
MaxPackFiles == 2
\* largest number of config files when only the resolver is explored
MaxStore == 3

\* the elements of a sequence
Range(s) == {s[i] : i \in 1..Len(s)}

(***************************************************************************)
(* str.replace(old, new): every non-overlapping occurrence, left to right. *)
(***************************************************************************)
RECURSIVE Replace(_, _, _)
Replace(s, old, new) ==
    IF Len(s) < Len(old) THEN s
    ELSE IF SubSeq(s, 1, Len(old)) = old
         THEN new \o Replace(SubSeq(s, Len(old) + 1, Len(s)), old, new)
         ELSE <<Head(s)>> \o Replace(Tail(s), old, new)

(***************************************************************************)
(* float(str) for strings of decimal digits with at most one point.  A     *)
(* float is represented by its value times FloatScale, which is exact for  *)
(* the version strings of VersionStrings (at most two fractional digits,   *)
(* and distinct decimals of that length are distinct doubles).             *)
(***************************************************************************)
RECURSIVE Pow10(_)
Pow10(n) == IF n = 0 THEN 1 ELSE 10 * Pow10(n - 1)

FracDigits == 2
FloatScale == Pow10(FracDigits)
ValueError == -1
PosInf == 1000000
NegInf == -1000000

Digits == <<"0", "1", "2", "3", "4", "5", "6", "7", "8", "9">>

IsDigit(c) == \E i \in 1..10 : Digits[i] = c

DigitVal(c) == (CHOOSE i \in 1..10 : Digits[i] = c) - 1

RECURSIVE IntOf(_)
IntOf(ds) == IF ds = <<>> THEN 0
             ELSE IntOf(SubSeq(ds, 1, Len(ds) - 1)) * 10 + DigitVal(ds[Len(ds)])

DotPositions(s) == {i \in 1..Len(s) : s[i] = "."}

ParseFloat(s) ==
    LET dots == DotPositions(s)
        wellFormed == /\ \A i \in 1..Len(s) : IsDigit(s[i]) \/ s[i] = "."
                      /\ Cardinality(dots) <= 1
                      /\ Len(s) > Cardinality(dots)
        p == IF dots = {} THEN Len(s) + 1 ELSE CHOOSE i \in dots : TRUE
        ip == SubSeq(s, 1, p - 1)
        fp == SubSeq(s, p + 1, Len(s))
    IN  IF ~wellFormed \/ Len(fp) > FracDigits THEN ValueError
        ELSE IntOf(ip) * FloatScale + IntOf(fp) * Pow10(FracDigits - Len(fp))

\* float(version.replace('1.', '')), the number the resolver compares
VersionNum(version) == ParseFloat(Replace(version, <<"1", ".">>, <<>>))

(***************************************************************************)
(* Version strings of the model: "1.<major>[.<minor>]".                    *)
(***************************************************************************)
V_1_18 == <<"1", ".", "1", "8">>
V_1_19 == <<"1", ".", "1", "9">>
V_1_20_1 == <<"1", ".", "2", "0", ".", "1">>
V_1_20_2 == <<"1", ".", "2", "0", ".", "2">>
V_1_20_10 == <<"1", ".", "2", "0", ".", "1", "0">>
V_1_21 == <<"1", ".", "2", "1">>
V_1_21_1 == <<"1", ".", "2", "1", ".", "1">>
V_1_21_4 == <<"1", ".", "2", "1", ".", "4">>
V_1_22 == <<"1", ".", "2", "2">>

VersionStrings == {V_1_19, V_1_20_1, V_1_20_10, V_1_21, V_1_21_1, V_1_21_4, V_1_22}

\* the other version strings of the tables of lines 779-790 and 931-942
V_1_16_5 == <<"1", ".", "1", "6", ".", "5">>
V_1_17_1 == <<"1", ".", "1", "7", ".", "1">>
V_1_18_2 == <<"1", ".", "1", "8", ".", "2">>
V_1_19_2 == <<"1", ".", "1", "9", ".", "2">>
V_1_19_3 == <<"1", ".", "1", "9", ".", "3">>
V_1_19_4 == <<"1", ".", "1", "9", ".", "4">>
V_1_20_4 == <<"1", ".", "2", "0", ".", "4">>

\* the keys of version_format (lines 931-942)
MappedVersions ==
    {V_1_16_5, V_1_17_1, V_1_18_2, V_1_19_2, V_1_19_3, V_1_19_4, V_1_20_1,
     V_1_20_2, V_1_20_4, V_1_21}

(***************************************************************************)
(* The sort key of get_available_versions:                                 *)
(* [int(n) for n in x.replace('1.', '').split('.')], lists being compared  *)
(* element by element.                                                     *)
(***************************************************************************)
RECURSIVE SplitOn(_, _)
SplitOn(s, c) ==
    IF \A i \in 1..Len(s) : s[i] # c THEN <<s>>
    ELSE LET i == CHOOSE k \in 1..Len(s) :
                      s[k] = c /\ \A j \in 1..(k - 1) : s[j] # c
         IN  <<SubSeq(s, 1, i - 1)>> \o SplitOn(SubSeq(s, i + 1, Len(s)), c)

KeyParts(x) == SplitOn(Replace(x, <<"1", ".">>, <<>>), ".")

\* int(n) raises on a piece that is empty or holds anything but digits
IntKeyRaises(x) ==
    LET parts == KeyParts(x)
    IN  \E i \in 1..Len(parts) :
            parts[i] = <<>> \/ \E j \in 1..Len(parts[i]) : ~IsDigit(parts[i][j])

IntKey(x) ==
    LET parts == KeyParts(x)
    IN  [i \in 1..Len(parts) |-> IntOf(parts[i])]

RECURSIVE ListLess(_, _)
ListLess(a, b) ==
    IF a = <<>> THEN b # <<>>
    ELSE IF b = <<>> THEN FALSE
    ELSE IF Head(a) # Head(b) THEN Head(a) < Head(b)
    ELSE ListLess(Tail(a), Tail(b))

\* sorted(list(S), key=IntKey, reverse=True): a set has no order, so equal
\* keys may come out in any order
RECURSIVE SortedByKey(_, _)
SortedByKey(S, key) ==
    IF S = {} THEN {<<>>}
    ELSE UNION {{<<x>> \o t : t \in SortedByKey(S \ {x}, key)} :
                   x \in {y \in S : \A z \in S : ~ListLess(key[y], key[z])}}

\* the key of every version string of the model, computed once
SortKeys ==
    [x \in VersionStrings \cup {V_1_18, V_1_20_2} \cup MappedVersions |->
        [raises |-> IntKeyRaises(x),
         key |-> IF IntKeyRaises(x) THEN <<>> ELSE IntKey(x)]]

SortedDescending(S) == SortedByKey(S, [x \in S |-> SortKeys[x].key])


(***************************************************************************)
(* Relative paths are sequences of tokens: directory and file names, the   *)
(* separators "/" and "\\", and the suffix ".mcmeta" of a sidecar file.     *)
(* os_sep is the separator of the host ("/" POSIX, "\\" Windows).           *)
(***************************************************************************)
Slash == "/"
Backslash == "\\"
McmetaSuffix == ".mcmeta"

\* the file a relative path names once joined to a directory of the host:
\* Windows takes both separators, POSIX only "/" (a "\\" is part of a name)
HostKey(os_sep, p) ==
    IF os_sep = Backslash THEN Replace(p, <<Slash>>, <<Backslash>>) ELSE p

\* rel_path.replace('\\', '/')
ForwardSlashes(p) == Replace(p, <<Backslash>>, <<Slash>>)

\* os.path.join(a, b) of two relative paths
PathJoin(os_sep, a, b) == a \o <<os_sep>> \o b

\* the proper directory prefixes of a file key
DirPrefixes(os_sep, k) ==
    {SubSeq(k, 1, i - 1) : i \in {j \in 1..Len(k) : k[j] = os_sep}}

(***************************************************************************)
(* A directory tree is a function from file keys to file contents; a       *)
(* directory exists when some file lies below it.                           *)
(***************************************************************************)
EmptyTree == [k \in {} |-> 0]

IsFile(tree, k) == k \in DOMAIN tree
IsDir(os_sep, tree, k) == \E f \in DOMAIN tree : k \in DirPrefixes(os_sep, f)
\* os.path.exists
Exists(os_sep, tree, k) == IsFile(tree, k) \/ IsDir(os_sep, tree, k)

\* os.makedirs(os.path.dirname(k), exist_ok=True) raises when a file is in the way
MakedirsOK(os_sep, tree, k) == \A d \in DirPrefixes(os_sep, k) : ~IsFile(tree, d)
\* a file can be written at k when its directory can be made and k is no directory
WriteOK(os_sep, tree, k) == MakedirsOK(os_sep, tree, k) /\ ~IsDir(os_sep, tree, k)

WriteFile(tree, k, content) ==
    [f \in DOMAIN tree \cup {k} |-> IF f = k THEN content ELSE tree[f]]

(***************************************************************************)
(* Images.  A pixel is <<c, a>>: c stands for the colour channels (every   *)
(* operation treats R, G and B alike), a is the alpha channel, both 8 bit. *)
(* An image is its size and a function from <<x, y>> to pixels.            *)
(***************************************************************************)
Coords(w, h) == (0..(w - 1)) \X (0..(h - 1))

MakeImage(w, h, px) == [kind |-> "image", w |-> w, h |-> h, px |-> px]

IsImage(content) == content.kind = "image"

\* a crop box (left, top, right, bottom) that PIL can crop and save
CropOK(crop_box) == crop_box[3] > crop_box[1] /\ crop_box[4] > crop_box[2]

\* mutant of Crop: right and bottom are taken as inclusive
CropInclusive(img, crop_box) ==
    LET l == crop_box[1]
        t == crop_box[2]
        w == crop_box[3] - l + 1
        h == crop_box[4] - t + 1
    IN  MakeImage(w, h,
            [p \in Coords(w, h) |->
                IF <<l + p[1], t + p[2]>> \in Coords(img.w, img.h)
                THEN img.px[<<l + p[1], t + p[2]>>]
                ELSE <<0, 0>>])

\* Image.crop: right and bottom are exclusive, pixels beyond the source are zero
Crop(img, crop_box) ==
    LET l == crop_box[1]
        t == crop_box[2]
        w == crop_box[3] - l
        h == crop_box[4] - t
    IN  MakeImage(w, h,
            [p \in Coords(w, h) |->
                IF <<l + p[1], t + p[2]>> \in Coords(img.w, img.h)
                THEN img.px[<<l + p[1], t + p[2]>>]
                ELSE <<0, 0>>])

\* Pillow's 8-bit blend of in1 and in2 under a mask value
Blend8(mask, in1, in2) ==
    LET tmp == in1 * (255 - mask) + in2 * mask + 128
    IN  ((tmp \div 256) + tmp) \div 256

\* mutant of Paste: the overlay is pasted without a mask
PasteUnmasked(base, overlay, position) ==
    MakeImage(base.w, base.h,
        [p \in Coords(base.w, base.h) |->
            LET o == <<p[1] - position[1], p[2] - position[2]>>
            IN  IF o \in Coords(overlay.w, overlay.h)
                THEN overlay.px[o]
                ELSE base.px[p]])

\* base.paste(overlay, position, overlay): overlay's alpha is the mask
Paste(base, overlay, position) ==
    MakeImage(base.w, base.h,
        [p \in Coords(base.w, base.h) |->
            LET o == <<p[1] - position[1], p[2] - position[2]>>
            IN  IF o \in Coords(overlay.w, overlay.h)
                THEN <<Blend8(overlay.px[o][2], base.px[p][1], overlay.px[o][1]),
                       Blend8(overlay.px[o][2], base.px[p][2], overlay.px[o][2])>>
                ELSE base.px[p]])

\* mutant of MaskOutside: the right and bottom bounds are exclusive
MaskOutsideExclusive(img, keep_area) ==
    MakeImage(img.w, img.h,
        [p \in Coords(img.w, img.h) |->
            IF ~(/\ keep_area[1] <= p[1] /\ p[1] < keep_area[3]
                 /\ keep_area[2] <= p[2] /\ p[2] < keep_area[4])
            THEN <<img.px[p][1], 0>>
            ELSE img.px[p]])

\* mutant of MaskOutside: alpha outside the kept area is halved
MaskOutsideFades(img, keep_area) ==
    MakeImage(img.w, img.h,
        [p \in Coords(img.w, img.h) |->
            IF ~(/\ keep_area[1] <= p[1] /\ p[1] <= keep_area[3]
                 /\ keep_area[2] <= p[2] /\ p[2] <= keep_area[4])
            THEN <<img.px[p][1], img.px[p][2] \div 2>>
            ELSE img.px[p]])

\* the pixel loop of apply_transparency
MaskOutside(img, keep_area) ==
    MakeImage(img.w, img.h,
        [p \in Coords(img.w, img.h) |->
            IF ~(/\ keep_area[1] <= p[1] /\ p[1] <= keep_area[3]
                 /\ keep_area[2] <= p[2] /\ p[2] <= keep_area[4])
            THEN <<img.px[p][1], 0>>
            ELSE img.px[p]])

(***************************************************************************)
(* The image helpers on files.  image_path is looked up in from_tree, the  *)
(* result is written to tree; an exception inside the helper is caught     *)
(* there and leaves tree as it was.                                        *)
(***************************************************************************)
\* mutant of split_image: the crop is saved over the source path
split_image_over_source(os_sep, from_tree, tree, image_path, crop_box, target_path) ==
    IF /\ IsFile(from_tree, image_path)
       /\ IsImage(from_tree[image_path])
       /\ CropOK(crop_box)
       /\ WriteOK(os_sep, tree, image_path)
    THEN WriteFile(tree, image_path, Crop(from_tree[image_path], crop_box))
    ELSE tree

split_image(os_sep, from_tree, tree, image_path, crop_box, target_path) ==
    IF /\ IsFile(from_tree, image_path)
       /\ IsImage(from_tree[image_path])
       /\ CropOK(crop_box)
       /\ WriteOK(os_sep, tree, target_path)
    THEN WriteFile(tree, target_path, Crop(from_tree[image_path], crop_box))
    ELSE tree

merge_images(from_tree, tree, base_path, overlay_path, position) ==
    IF /\ IsFile(tree, base_path)
       /\ IsImage(tree[base_path])
       /\ IsFile(from_tree, overlay_path)
       /\ IsImage(from_tree[overlay_path])
    THEN WriteFile(tree, base_path,
                   Paste(tree[base_path], from_tree[overlay_path], position))
    ELSE tree

apply_transparency(tree, image_path, keep_area) ==
    IF IsFile(tree, image_path) /\ IsImage(tree[image_path])
    THEN WriteFile(tree, image_path, MaskOutside(tree[image_path], keep_area))
    ELSE tree

(***************************************************************************)
(* Files of the model.                                                     *)
(***************************************************************************)
P_a == <<"a.png">>
P_b == <<"b.png">>
P_overlay == <<"overlay.png">>
P_tex_c == <<"tex", "/", "c.png">>
P_tex_e == <<"tex", "/", "e.png">>
P_tex_d == <<"tex", "\\", "d.png">>
P_a_m == <<"a.png", "/", "m.png">>
P_q == <<"q.png">>
PackMcmeta == <<"pack.mcmeta">>

\* 2x2, opaque, four different colours
ImageB == MakeImage(2, 2, [p \in Coords(2, 2) |-> <<10 + 2 * p[2] + p[1], 255>>])
\* 2x1, left pixel opaque, right pixel half transparent
ImageA == MakeImage(2, 1, [p \in Coords(2, 1) |-> <<20 + p[1], 255 - 127 * p[1]>>])
\* 1x2, upper pixel opaque, lower pixel fully transparent
ImageOverlay == MakeImage(1, 2, [p \in Coords(1, 2) |-> <<30 + p[2], 255 * (1 - p[2])>>])
\* a file that is neither an image nor JSON
Bytes == [kind |-> "bytes"]
\* pack.mcmeta as parsed by json.load
Mcmeta(pack_format) == [kind |-> "json", pack_format |-> pack_format]
\* a sidecar file of config/mcmetaFile/<version>
Sidecar(version) == [kind |-> "sidecar", version |-> version]

(***************************************************************************)
(* Version-config records (config/<version>.json as loaded by json.load);  *)
(* an absent field is the empty list or mapping that config.get defaults   *)
(* to.  Mappings keep the order of the file.                               *)
(***************************************************************************)
Config(removed, splits, merges, transparency) ==
    [removed_files |-> removed, split_operations |-> splits,
     merge_operations |-> merges, transparency_operations |-> transparency]

EmptyConfig == Config(<<>>, <<>>, <<>>, <<>>)

ConfigFile(version) ==
    CASE version = V_1_20_1 ->
            Config(<<P_a>>,
                   <<[source_file |-> P_q,
                      splits |-> <<[source |-> <<0, 0, 1, 1>>, target |-> P_tex_e]>>],
                     [source_file |-> P_b,
                      splits |-> <<[source |-> <<0, 0, 1, 1>>, target |-> P_tex_c]>>]>>,
                   <<>>, <<>>)
      [] version = V_1_21 ->
            Config(<<>>, <<>>,
                   <<[target_file |-> P_b,
                      merges |-> <<[source |-> P_overlay, position |-> <<1, 0>>],
                                   [source |-> P_a, position |-> <<0, 1>>]>>]>>,
                   <<>>)
      [] version = V_1_21_1 ->
            Config(<<P_tex_c>>, <<>>, <<>>,
                   <<[source_file |-> P_b, target |-> P_a, keep_area |-> <<0, 0, 0, 1>>]>>)
      [] version = V_1_20_10 ->
            Config(<<>>, <<>>, <<>>,
                   <<[source_file |-> P_b, target |-> P_a_m, keep_area |-> <<0, 0, 0, 0>>]>>)
      [] version = V_1_21_4 ->
            Config(<<P_overlay>>,
                   <<[source_file |-> P_b,
                      splits |-> <<[source |-> <<0, 0, 1, 2>>, target |-> P_a]>>]>>,
                   <<[target_file |-> P_a,
                      merges |-> <<[source |-> P_overlay, position |-> <<0, 0>>]>>]>>,
                   <<[source_file |-> P_b, target |-> P_tex_c, keep_area |-> <<1, 0, 1, 1>>]>>)
      [] version = V_1_22 ->
            Config(<<P_b>>,
                   <<[source_file |-> P_a,
                      splits |-> <<[source |-> <<1, 0, 2, 1>>, target |-> P_tex_d],
                                   [source |-> <<0, 0, 1, 1>>, target |-> P_b]>>]>>,
                   <<>>, <<>>)
      [] OTHER -> EmptyConfig

\* the 'versions' entry of config/<version>.json, NoKey when it has none
NoKey == "no key"

ConfigVersions(version) ==
    CASE version = V_1_20_1 ->
            <<V_1_19, V_1_20_1, V_1_20_2, V_1_20_10, V_1_21, V_1_21_4, V_1_22>>
      [] version = V_1_20_10 ->
            <<V_1_20_10, V_1_20_2, V_1_19, V_1_21, V_1_20_1, V_1_21_4>>
      [] version = V_1_21 ->
            <<V_1_22, V_1_21, V_1_19, V_1_20_1, V_1_20_10, V_1_21_4>>
      [] version = V_1_21_1 ->
            <<V_1_21_1, V_1_19, V_1_20_1, V_1_20_10, V_1_21, V_1_21_4, V_1_22>>
      [] version = V_1_21_4 -> <<V_1_21_4, V_1_21, V_1_19>>
      [] version = V_1_22 -> <<V_1_19, V_1_21, V_1_22, V_1_22>>
      [] version = V_1_20_2 ->
            <<V_1_16_5, V_1_17_1, V_1_18_2, V_1_19, V_1_19_2, V_1_19_3, V_1_19_4,
              V_1_20_1, V_1_20_2, V_1_20_4, V_1_21, V_1_22>>
      [] OTHER -> NoKey

\* config/1.18.json holds text that json.load rejects
Loads(version) == version # V_1_18

(***************************************************************************)
(* config/mcmetaFile/<version> as os.walk lists it: for every file the     *)
(* directory relative to the version directory ("." for the top) and the   *)
(* file name.  A version without the directory has no entries.             *)
(***************************************************************************)
Dot == <<".">>

McmetaFiles(version) ==
    CASE version = V_1_20_1 ->
            <<[rel_path |-> <<"tex">>, file |-> <<"c.png", McmetaSuffix>>],
              [rel_path |-> Dot, file |-> <<"b.png", McmetaSuffix>>],
              [rel_path |-> Dot, file |-> <<"q.png", McmetaSuffix>>],
              [rel_path |-> Dot, file |-> <<"readme.txt">>]>>
      [] version = V_1_21 ->
            <<[rel_path |-> Dot, file |-> <<"a.png", McmetaSuffix>>]>>
      [] version = V_1_21_4 ->
            <<[rel_path |-> Dot, file |-> <<"a.png", McmetaSuffix>>]>>
      [] version = V_1_22 ->
            <<[rel_path |-> <<"tex">>, file |-> <<"d.png", McmetaSuffix>>]>>
      [] OTHER -> <<>>

(***************************************************************************)
(* The tables of on_confirm and the ordering of one plan step.             *)
(***************************************************************************)
DefaultFormat == 15

\* version_format.get(target, 15)
VersionFormat(version) ==
    CASE version = <<"1", ".", "1", "6", ".", "5">> -> 6
      [] version = <<"1", ".", "1", "7", ".", "1">> -> 7
      [] version = <<"1", ".", "1", "8", ".", "2">> -> 8
      [] version = <<"1", ".", "1", "9", ".", "2">> -> 9
      [] version = <<"1", ".", "1", "9", ".", "3">> -> 12
      [] version = <<"1", ".", "1", "9", ".", "4">> -> 13
      [] version = <<"1", ".", "2", "0", ".", "1">> -> 15
      [] version = <<"1", ".", "2", "0", ".", "2">> -> 18
      [] version = <<"1", ".", "2", "0", ".", "4">> -> 26
      [] version = <<"1", ".", "2", "1">> -> 30
      [] OTHER -> DefaultFormat

\* the keys of format_to_version (lines 779-790)
MappedFormats == {6, 7, 8, 9, 12, 13, 15, 18, 26, 30}

\* mutant of get_version_from_pack_format: the two newest codes are missing
get_version_from_pack_format_older(pack_format) ==
    CASE pack_format = 6 -> V_1_16_5
      [] pack_format = 7 -> V_1_17_1
      [] pack_format = 8 -> V_1_18_2
      [] pack_format = 9 -> V_1_19_2
      [] pack_format = 12 -> V_1_19_3
      [] pack_format = 13 -> V_1_19_4
      [] pack_format = 15 -> V_1_20_1
      [] pack_format = 18 -> V_1_20_2
      [] OTHER -> <<>>

\* format_to_version.get(pack_format), None being the empty string of tokens
get_version_from_pack_format(pack_format) ==
    CASE pack_format = 6 -> V_1_16_5
      [] pack_format = 7 -> V_1_17_1
      [] pack_format = 8 -> V_1_18_2
      [] pack_format = 9 -> V_1_19_2
      [] pack_format = 12 -> V_1_19_3
      [] pack_format = 13 -> V_1_19_4
      [] pack_format = 15 -> V_1_20_1
      [] pack_format = 18 -> V_1_20_2
      [] pack_format = 26 -> V_1_20_4
      [] pack_format = 30 -> V_1_21
      [] OTHER -> <<>>

\* lines 805-813: the version open_convert_window reads off pack.mcmeta; a
\* missing or unreadable file leaves it None
DetectVersion(tree) ==
    IF IsFile(tree, PackMcmeta) /\ tree[PackMcmeta].kind = "json"
    THEN get_version_from_pack_format(tree[PackMcmeta].pack_format)
    ELSE <<>>

\* the (target, merge) pairs of merge_operations in the order the loops visit them
RECURSIVE MergeList(_)
MergeList(merge_operations) ==
    IF merge_operations = <<>> THEN <<>>
    ELSE [i \in 1..Len(Head(merge_operations).merges) |->
             [target_file |-> Head(merge_operations).target_file,
              source |-> Head(merge_operations).merges[i].source,
              position |-> Head(merge_operations).merges[i].position]]
         \o MergeList(Tail(merge_operations))

\* mutant of PhaseOrder: the merge loop runs before the split loop
PhaseOrderMergeFirst == <<"removal", "merge", "split", "transparency", "sidecar">>

\* the loops of lines 170-242 in the order of the source
PhaseOrder == <<"removal", "split", "merge", "transparency", "sidecar">>

PhaseEntries(config, phase) ==
    CASE phase = "split" -> config.split_operations
      [] phase = "merge" -> MergeList(config.merge_operations)
      [] phase = "transparency" -> config.transparency_operations
      [] OTHER -> <<>>

\* the first loop at or after position i of PhaseOrder that has an entry to
\* visit; the sidecar walk always runs
RECURSIVE FirstPhaseFrom(_, _)
FirstPhaseFrom(config, i) ==
    IF i >= Len(PhaseOrder) THEN "sidecar"
    ELSE IF Len(PhaseEntries(config, PhaseOrder[i])) > 0 THEN PhaseOrder[i]
    ELSE FirstPhaseFrom(config, i + 1)

PhaseIndex(phase) == CHOOSE i \in 1..Len(PhaseOrder) : PhaseOrder[i] = phase

(***************************************************************************)
(* State.                                                                  *)
(***************************************************************************)
VARIABLES
    os_sep,           \* os.sep of the host
    config_dir,       \* versions of config/*.json in os.listdir order
    pack,             \* source_path: the unpacked source pack (a tree)
    temp_dir,         \* packagecache/temp_convert: [exists, tree]
    source,           \* source_version.get()
    target,           \* target_version.get()
    pc,               \* the statement on_confirm executes next
    configs,          \* get_version_operations: loaded configs, in dict order
    current_version,  \* get_version_operations: current_version
    version_path,     \* get_version_operations: version_path
    operations,       \* process_version_conversion: operations
    op_index,         \* index of the operation being applied
    entry,            \* index of the entry visited next in the current loop
    exclude_files,    \* process_version_conversion: exclude_files
    success,          \* first component of what process_version_conversion returned
    archive,          \* the zip file: [written, entries]
    applied,          \* history: versions whose operation loop body has completed
    dialog,           \* the message box shown: "none", "warning", "info" or "error"
    versions,         \* open_convert_window: the values of the two comboboxes
    zip_name,         \* name of the selected pack's directory in packagecache
    other_pc,         \* on_confirm of a second instance of the program
    image_run,        \* the images of a run of the image functions alone
    temp_before,      \* history: temp_convert as it was when the window opened
    detected_version  \* open_convert_window: current_version (line 811)

vars == <<os_sep, config_dir, pack, temp_dir, source, target, pc, configs,
          current_version, version_path, operations, op_index, entry,
          exclude_files, success, archive, applied, dialog, versions,
          zip_name, other_pc, image_run, temp_before, detected_version>>

NoVersion == <<>>
Missing == [exists |-> FALSE, tree |-> EmptyTree]
Directory(tree) == [exists |-> TRUE, tree |-> tree]
NoArchive == [written |-> FALSE, entries |-> {}]
\* the directory of the converted pack, and line 913
PackName == "pack"
TempName == "temp_convert"
\* no run of the image functions alone
NoImages == [step |-> "none"]

(***************************************************************************)
(* Initial states: the files on disk when the conversion window is opened, *)
(* and the two versions the user is about to select in it.                 *)
(***************************************************************************)
DistinctSeqs(S, n) ==
    {s \in UNION {[1..k -> S] : k \in 0..n} :
        \A i, j \in 1..Len(s) : i # j => s[i] # s[j]}

PackFileChoices ==
    {<<P_a, ImageA>>, <<P_a, Bytes>>, <<P_b, ImageB>>, <<P_overlay, ImageOverlay>>}

PackFileSets(n) ==
    {S \in SUBSET PackFileChoices :
        /\ Cardinality(S) <= n
        /\ \A x, y \in S : x[1] = y[1] => x = y}

McmetaChoices == {<<>>, <<Mcmeta(4)>>, <<Bytes>>}

\* the tree holding the files of S and the pack.mcmeta of m (if any)
TreeOf(sep, S, m) ==
    LET paths == {HostKey(sep, x[1]) : x \in S}
    IN  [k \in paths \cup (IF m = <<>> THEN {} ELSE {PackMcmeta}) |->
            IF k \in paths /\ \E x \in S : HostKey(sep, x[1]) = k
            THEN (CHOOSE x \in S : HostKey(sep, x[1]) = k)[2]
            ELSE m[1]]

StaleTree == [k \in {<<"stale.png">>} |-> Bytes]

InitOver(seps, storeVersions, maxStore, sources, targets, maxFiles, mcmetas, temps, names, others) ==
    /\ os_sep \in seps
    /\ zip_name \in names
    /\ config_dir \in DistinctSeqs(storeVersions, maxStore)
    /\ \E S \in PackFileSets(maxFiles), m \in mcmetas :
          pack = TreeOf(os_sep, S, m)
    /\ temp_dir \in (IF zip_name = TempName THEN {Directory(pack)} ELSE temps)
    /\ temp_before = temp_dir
    /\ detected_version = NoVersion
    /\ source \in sources
    /\ target \in targets
    /\ pc = "open"
    /\ versions = <<>>
    /\ other_pc \in others
    /\ image_run = NoImages
    /\ configs = <<>>
    /\ current_version = NoVersion
    /\ version_path = <<>>
    /\ operations = <<>>
    /\ op_index = 0
    /\ entry = 0
    /\ exclude_files = {}
    /\ success = FALSE
    /\ archive = NoArchive
    /\ applied = <<>>
    /\ dialog = "none"

(***************************************************************************)
(* open_convert_window.                                                    *)
(***************************************************************************)
\* lines 88-101: the versions the readable configs declare
DeclaredVersions ==
    UNION {Range(ConfigVersions(config_dir[i])) :
              i \in {j \in 1..Len(config_dir) :
                         /\ Loads(config_dir[j])
                         /\ ConfigVersions(config_dir[j]) # NoKey}}

\* lines 104-106: the lists sorted() can return
get_available_versions == SortedDescending(DeclaredVersions)

\* the window opens when a version is on offer; source and target are the
\* entries the user then selects, and without them the window is closed
\* again.  A version whose key cannot be computed raises out of the handler.
OpenConvertWindow ==
    /\ pc = "open"
    /\ detected_version' = DetectVersion(pack)
    /\ IF \E v \in DeclaredVersions : SortKeys[v].raises
       THEN /\ pc' = "closed"
            /\ UNCHANGED <<versions, dialog>>
       ELSE \E vs \in get_available_versions :
               /\ versions' = vs
               /\ IF vs = <<>>
                  THEN pc' = "closed" /\ dialog' = "warning"
                  ELSE /\ pc' = IF source \in Range(vs) /\ target \in Range(vs)
                                THEN "confirm" ELSE "closed"
                       /\ UNCHANGED dialog
    /\ UNCHANGED <<os_sep, config_dir, pack, temp_dir, source, target, configs,
                   current_version, version_path, operations, op_index, entry,
                   exclude_files, success, archive, applied, zip_name, other_pc,
                   image_run, temp_before>>

(***************************************************************************)
(* on_confirm, first part: the temporary copy and the pack_format rewrite. *)
(***************************************************************************)
\* mutant of CopyToTemp: the pack is copied into temp_convert as it is found
CopyToTempOverStale ==
    /\ pc = "confirm"
    /\ UNCHANGED <<versions, zip_name, other_pc, image_run, temp_before, detected_version>>
    /\ temp_dir' = Directory([k \in DOMAIN temp_dir.tree \cup DOMAIN pack |->
                                 IF k \in DOMAIN pack THEN pack[k]
                                 ELSE temp_dir.tree[k]])
    /\ pc' = "rewrite"
    /\ UNCHANGED <<os_sep, config_dir, pack, source, target, configs,
                   current_version, version_path, operations, op_index, entry,
                   exclude_files, success, archive, dialog, applied>>

\* lines 909-919: a stale temp_convert is removed, then the pack is copied
\* into it.  For the pack of temp_convert.zip source_path is temp_dir itself:
\* rmtree removes the pack and copytree raises on the missing source.
CopyToTemp ==
    /\ pc = "confirm"
    /\ UNCHANGED <<versions, zip_name, other_pc, image_run, temp_before, detected_version>>
    /\ IF zip_name = TempName
       THEN /\ pack' = EmptyTree
            /\ temp_dir' = Missing
            /\ pc' = "except"
       ELSE /\ temp_dir' = Directory(pack)
            /\ pc' = "rewrite"
            /\ UNCHANGED pack
    /\ UNCHANGED <<os_sep, config_dir, source, target, configs,
                   current_version, version_path, operations, op_index, entry,
                   exclude_files, success, archive, dialog, applied>>

\* mutant of RewriteMcmeta: the code written is that of the source version
RewriteMcmetaFromSource ==
    /\ pc = "rewrite"
    /\ UNCHANGED <<versions, zip_name, other_pc, image_run, temp_before, detected_version>>
    /\ IF ~Exists(os_sep, temp_dir.tree, PackMcmeta)
       THEN /\ pc' = "convert"
            /\ UNCHANGED temp_dir
       ELSE IF /\ IsFile(temp_dir.tree, PackMcmeta)
               /\ temp_dir.tree[PackMcmeta].kind = "json"
       THEN /\ temp_dir' = Directory(WriteFile(temp_dir.tree, PackMcmeta,
                                               Mcmeta(VersionFormat(source))))
            /\ pc' = "convert"
       ELSE /\ pc' = "except"
            /\ UNCHANGED temp_dir
    /\ UNCHANGED <<os_sep, config_dir, pack, source, target, configs,
                   current_version, version_path, operations, op_index, entry,
                   exclude_files, success, archive, dialog, applied>>

\* pack.mcmeta of the copy gets the format code of the target version;
\* a pack.mcmeta that json.load cannot read raises
RewriteMcmeta ==
    /\ pc = "rewrite"
    /\ UNCHANGED <<versions, zip_name, other_pc, image_run, temp_before, detected_version>>
    /\ IF ~Exists(os_sep, temp_dir.tree, PackMcmeta)
       THEN /\ pc' = "convert"
            /\ UNCHANGED temp_dir
       ELSE IF /\ IsFile(temp_dir.tree, PackMcmeta)
               /\ temp_dir.tree[PackMcmeta].kind = "json"
       THEN /\ temp_dir' = Directory(WriteFile(temp_dir.tree, PackMcmeta,
                                               Mcmeta(VersionFormat(target))))
            /\ pc' = "convert"
       ELSE /\ pc' = "except"
            /\ UNCHANGED temp_dir
    /\ UNCHANGED <<os_sep, config_dir, pack, source, target, configs,
                   current_version, version_path, operations, op_index, entry,
                   exclude_files, success, archive, dialog, applied>>

(***************************************************************************)
(* get_version_operations.                                                 *)
(***************************************************************************)
\* line 83 is not guarded: json.load raises on a file it cannot read
LoadRaises == \E i \in 1..Len(config_dir) : ~Loads(config_dir[i])

\* load_version_configs: one record per file, in listing order
load_version_configs ==
    [i \in 1..Len(config_dir) |->
        [version |-> config_dir[i], config |-> ConfigFile(config_dir[i])]]

\* mutant of ScanConfigs: a version of the current key can be chosen again
RECURSIVE ScanConfigsNotStrict(_, _, _, _, _, _)
ScanConfigsNotStrict(cfgs, current_num, source_num, target_num, next_version, next_num) ==
    IF cfgs = <<>> THEN next_version
    ELSE LET version == Head(cfgs).version
             version_num == VersionNum(version)
             chosen == IF target_num > source_num
                       THEN /\ version_num >= current_num
                            /\ version_num <= target_num
                            /\ version_num < next_num
                       ELSE /\ version_num <= current_num
                            /\ version_num >= target_num
                            /\ version_num > next_num
         IN  IF chosen
             THEN ScanConfigsNotStrict(Tail(cfgs), current_num, source_num,
                                       target_num, version, version_num)
             ELSE ScanConfigsNotStrict(Tail(cfgs), current_num, source_num,
                                       target_num, next_version, next_num)

\* mutant of ScanConfigs: the bound at the target is dropped
RECURSIVE ScanConfigsPastTarget(_, _, _, _, _, _)
ScanConfigsPastTarget(cfgs, current_num, source_num, target_num, next_version, next_num) ==
    IF cfgs = <<>> THEN next_version
    ELSE LET version == Head(cfgs).version
             version_num == VersionNum(version)
             chosen == IF target_num > source_num
                       THEN version_num > current_num /\ version_num < next_num
                       ELSE version_num < current_num /\ version_num > next_num
         IN  IF chosen
             THEN ScanConfigsPastTarget(Tail(cfgs), current_num, source_num,
                                        target_num, version, version_num)
             ELSE ScanConfigsPastTarget(Tail(cfgs), current_num, source_num,
                                        target_num, next_version, next_num)

\* the for loop over configs.items(): the version chosen as next_version
RECURSIVE ScanConfigs(_, _, _, _, _, _)
ScanConfigs(cfgs, current_num, source_num, target_num, next_version, next_num) ==
    IF cfgs = <<>> THEN next_version
    ELSE LET version == Head(cfgs).version
             version_num == VersionNum(version)
             chosen == IF target_num > source_num
                       THEN /\ version_num > current_num
                            /\ version_num <= target_num
                            /\ version_num < next_num
                       ELSE /\ version_num < current_num
                            /\ version_num >= target_num
                            /\ version_num > next_num
         IN  IF chosen
             THEN ScanConfigs(Tail(cfgs), current_num, source_num, target_num,
                              version, version_num)
             ELSE ScanConfigs(Tail(cfgs), current_num, source_num, target_num,
                              next_version, next_num)

NextVersion(cfgs, current, source_version, target_version) ==
    ScanConfigs(cfgs, VersionNum(current), VersionNum(source_version),
                VersionNum(target_version), NoVersion,
                IF VersionNum(target_version) > VersionNum(source_version)
                THEN PosInf ELSE NegInf)

\* the condition of the while loop
LoopContinues(current, target_version) ==
    VersionNum(current) # VersionNum(target_version)

\* mutant of StartResolve: the path starts with the source version itself
StartResolveAtSource ==
    /\ pc = "convert"
    /\ UNCHANGED <<versions, zip_name, other_pc, image_run, temp_before, detected_version>>
    /\ configs' = load_version_configs
    /\ current_version' = source
    /\ version_path' = IF source \in Range(config_dir) THEN <<source>> ELSE <<>>
    /\ pc' = "resolve"
    /\ UNCHANGED <<os_sep, config_dir, pack, temp_dir, source, target,
                   operations, op_index, entry, exclude_files, success,
                   archive, dialog, applied>>

\* lines 117-123: the configs are loaded and the walk starts at the source
StartResolve ==
    /\ pc = "convert"
    /\ UNCHANGED <<versions, zip_name, other_pc, image_run, temp_before, detected_version>>
    /\ IF \/ LoadRaises
          \/ VersionNum(source) = ValueError
          \/ VersionNum(target) = ValueError
       THEN /\ pc' = "except"
            /\ UNCHANGED <<configs, current_version, version_path>>
       ELSE /\ configs' = load_version_configs
            /\ current_version' = source
            /\ version_path' = <<>>
            /\ pc' = "resolve"
    /\ UNCHANGED <<os_sep, config_dir, pack, temp_dir, source, target,
                   operations, op_index, entry, exclude_files, success,
                   archive, dialog, applied>>

\* one iteration of the while loop that finds a next version
ResolveStep ==
    /\ pc = "resolve"
    /\ UNCHANGED <<versions, zip_name, other_pc, image_run, temp_before, detected_version>>
    /\ LoopContinues(current_version, target)
    /\ LET next_version == NextVersion(configs, current_version, source, target)
       IN  /\ next_version # NoVersion
           /\ version_path' = Append(version_path, next_version)
           /\ current_version' = next_version
    /\ UNCHANGED <<os_sep, config_dir, pack, temp_dir, source, target, pc,
                   configs, operations, op_index, entry, exclude_files,
                   success, archive, dialog, applied>>

\* config of a version in the loaded configs
ConfigOf(cfgs, version) ==
    (CHOOSE i \in 1..Len(cfgs) : cfgs[i].version = version)

\* lines 148-157
CollectOperations(cfgs, path) ==
    [i \in 1..Len(path) |->
        [version |-> path[i], config |-> cfgs[ConfigOf(cfgs, path[i])].config]]

\* mutant of FinishResolve: a walk that stops short of the target raises
FinishResolveStrict ==
    /\ pc = "resolve"
    /\ UNCHANGED <<versions, zip_name, other_pc, image_run, temp_before, detected_version>>
    /\ \/ ~LoopContinues(current_version, target)
       \/ NextVersion(configs, current_version, source, target) = NoVersion
    /\ IF LoopContinues(current_version, target)
       THEN /\ pc' = "except"
            /\ UNCHANGED <<operations, exclude_files, success, op_index>>
       ELSE /\ operations' = CollectOperations(configs, version_path)
            /\ exclude_files' = {}
            /\ IF version_path = <<>>
               THEN /\ success' = TRUE
                    /\ pc' = "ask"
                    /\ UNCHANGED op_index
               ELSE /\ op_index' = 1
                    /\ pc' = "removal"
                    /\ UNCHANGED success
    /\ UNCHANGED <<os_sep, config_dir, pack, temp_dir, source, target, configs,
                   current_version, version_path, entry, archive, dialog, applied>>

\* the loop ends (target reached, or break when no next version is found);
\* the operations are collected and process_version_conversion starts
FinishResolve ==
    /\ pc = "resolve"
    /\ UNCHANGED <<versions, zip_name, other_pc, image_run, temp_before, detected_version>>
    /\ \/ ~LoopContinues(current_version, target)
       \/ NextVersion(configs, current_version, source, target) = NoVersion
    /\ operations' = CollectOperations(configs, version_path)
    /\ exclude_files' = {}
    /\ IF version_path = <<>>
       THEN /\ success' = TRUE
            /\ pc' = "ask"
            /\ UNCHANGED op_index
       ELSE /\ op_index' = 1
            /\ pc' = "removal"
            /\ UNCHANGED success
    /\ UNCHANGED <<os_sep, config_dir, pack, temp_dir, source, target, configs,
                   current_version, version_path, entry, archive, dialog, applied>>

(***************************************************************************)
(* process_version_conversion: the loops of one operation.  source_path is *)
(* pack, target_path is temp_dir.                                          *)
(***************************************************************************)
\* where control goes after entry e of the loop `phase` of config
AfterEntry(config, phase, e) ==
    IF e < Len(PhaseEntries(config, phase))
    THEN [pc |-> phase, entry |-> e + 1]
    ELSE [pc |-> FirstPhaseFrom(config, PhaseIndex(phase) + 1), entry |-> 1]

\* mutant of Removal: the removed files are deleted from the working tree
RemovalDeletes ==
    /\ pc = "removal"
    /\ UNCHANGED <<versions, zip_name, other_pc, image_run, temp_before, detected_version>>
    /\ LET config == operations[op_index].config
           gone == {HostKey(os_sep, p) : p \in Range(config.removed_files)}
       IN  /\ exclude_files' = exclude_files \cup Range(config.removed_files)
           /\ temp_dir' = Directory([k \in DOMAIN temp_dir.tree \ gone |->
                                        temp_dir.tree[k]])
           /\ pc' = FirstPhaseFrom(config, 2)
           /\ entry' = 1
    /\ UNCHANGED <<os_sep, config_dir, pack, source, target, configs,
                   current_version, version_path, operations, op_index,
                   success, archive, dialog, applied>>

\* mutant of Removal: every operation starts a new exclusion set
RemovalResets ==
    /\ pc = "removal"
    /\ UNCHANGED <<versions, zip_name, other_pc, image_run, temp_before, detected_version>>
    /\ LET config == operations[op_index].config
       IN  /\ exclude_files' = Range(config.removed_files)
           /\ pc' = FirstPhaseFrom(config, 2)
           /\ entry' = 1
    /\ UNCHANGED <<os_sep, config_dir, pack, temp_dir, source, target, configs,
                   current_version, version_path, operations, op_index,
                   success, archive, dialog, applied>>

\* lines 171-172
Removal ==
    /\ pc = "removal"
    /\ UNCHANGED <<versions, zip_name, other_pc, image_run, temp_before, detected_version>>
    /\ LET config == operations[op_index].config
       IN  /\ exclude_files' = exclude_files \cup Range(config.removed_files)
           /\ pc' = FirstPhaseFrom(config, 2)
           /\ entry' = 1
    /\ UNCHANGED <<os_sep, config_dir, pack, temp_dir, source, target, configs,
                   current_version, version_path, operations, op_index,
                   success, archive, dialog, applied>>

\* lines 178-180: the splits of one source file, in order
RECURSIVE ApplySplits(_, _, _, _, _)
ApplySplits(sep, from_tree, tree, source_file_path, splits) ==
    IF splits = <<>> THEN tree
    ELSE ApplySplits(sep, from_tree,
                     split_image(sep, from_tree, tree, source_file_path,
                                 Head(splits).source,
                                 HostKey(sep, Head(splits).target)),
                     source_file_path, Tail(splits))

\* lines 175-180 for one entry of split_operations
SplitEntry(sep, from_tree, tree, e) ==
    IF Exists(sep, from_tree, HostKey(sep, e.source_file))
    THEN ApplySplits(sep, from_tree, tree, HostKey(sep, e.source_file), e.splits)
    ELSE tree

Split ==
    /\ pc = "split"
    /\ UNCHANGED <<versions, zip_name, other_pc, image_run, temp_before, detected_version>>
    /\ LET config == operations[op_index].config
           next == AfterEntry(config, "split", entry)
       IN  /\ temp_dir' = Directory(SplitEntry(os_sep, pack, temp_dir.tree,
                                               config.split_operations[entry]))
           /\ pc' = next.pc
           /\ entry' = next.entry
    /\ UNCHANGED <<os_sep, config_dir, pack, source, target, configs,
                   current_version, version_path, operations, op_index,
                   exclude_files, success, archive, dialog, applied>>

\* lines 186-189 for one merge of one target file
MergeEntry(sep, from_tree, tree, m) ==
    IF Exists(sep, from_tree, HostKey(sep, m.source))
    THEN merge_images(from_tree, tree, HostKey(sep, m.target_file),
                      HostKey(sep, m.source), m.position)
    ELSE tree

\* mutant of Merge: a missing overlay ends the merge loop
MergeBreaksOnMissing ==
    /\ pc = "merge"
    /\ UNCHANGED <<versions, zip_name, other_pc, image_run, temp_before, detected_version>>
    /\ LET config == operations[op_index].config
           m == MergeList(config.merge_operations)[entry]
           next == IF Exists(os_sep, pack, HostKey(os_sep, m.source))
                   THEN AfterEntry(config, "merge", entry)
                   ELSE [pc |-> FirstPhaseFrom(config, PhaseIndex("merge") + 1),
                         entry |-> 1]
       IN  /\ temp_dir' = Directory(MergeEntry(os_sep, pack, temp_dir.tree, m))
           /\ pc' = next.pc
           /\ entry' = next.entry
    /\ UNCHANGED <<os_sep, config_dir, pack, source, target, configs,
                   current_version, version_path, operations, op_index,
                   exclude_files, success, archive, dialog, applied>>

Merge ==
    /\ pc = "merge"
    /\ UNCHANGED <<versions, zip_name, other_pc, image_run, temp_before, detected_version>>
    /\ LET config == operations[op_index].config
           next == AfterEntry(config, "merge", entry)
       IN  /\ temp_dir' = Directory(MergeEntry(os_sep, pack, temp_dir.tree,
                                     MergeList(config.merge_operations)[entry]))
           /\ pc' = next.pc
           /\ entry' = next.entry
    /\ UNCHANGED <<os_sep, config_dir, pack, source, target, configs,
                   current_version, version_path, operations, op_index,
                   exclude_files, success, archive, dialog, applied>>

\* lines 193-198 for one entry: the new tree, or raised when os.makedirs or
\* shutil.copy2 raises (the exception leaves process_version_conversion's loop)
TransparencyEntry(sep, from_tree, tree, t) ==
    LET source_file_path == HostKey(sep, t.source_file)
        target_file == HostKey(sep, t.target)
    IN  IF ~Exists(sep, from_tree, source_file_path)
        THEN [raised |-> FALSE, tree |-> tree]
        ELSE IF \/ ~WriteOK(sep, tree, target_file)
                \/ ~IsFile(from_tree, source_file_path)
        THEN [raised |-> TRUE, tree |-> tree]
        ELSE [raised |-> FALSE,
              tree |-> apply_transparency(
                           WriteFile(tree, target_file, from_tree[source_file_path]),
                           target_file, t.keep_area)]

\* mutant of ReturnFalse: on_confirm goes on to the save dialog all the same
ReturnFalseUnchecked ==
    /\ success' = FALSE
    /\ dialog' = "error"
    /\ pc' = "ask"

\* lines 245-248: the exception is reported and False is returned; on_confirm
\* then skips packaging
ReturnFalse ==
    /\ success' = FALSE
    /\ dialog' = "error"
    /\ pc' = "finally"

Transparency ==
    /\ pc = "transparency"
    /\ UNCHANGED <<versions, zip_name, other_pc, image_run, temp_before, detected_version>>
    /\ LET config == operations[op_index].config
           next == AfterEntry(config, "transparency", entry)
           r == TransparencyEntry(os_sep, pack, temp_dir.tree,
                                  config.transparency_operations[entry])
       IN  IF r.raised
           THEN /\ ReturnFalse
                /\ UNCHANGED <<temp_dir, entry>>
           ELSE /\ temp_dir' = Directory(r.tree)
                /\ pc' = next.pc
                /\ entry' = next.entry
                /\ UNCHANGED <<success, dialog>>
    /\ UNCHANGED <<os_sep, config_dir, pack, source, target, configs,
                   current_version, version_path, operations, op_index,
                   exclude_files, archive, applied>>

\* lines 216-225
IsSplitTarget(sep, config, rel_path, original_file) ==
    \E i \in 1..Len(config.split_operations) :
        \E j \in 1..Len(config.split_operations[i].splits) :
            ForwardSlashes(config.split_operations[i].splits[j].target)
                = ForwardSlashes(PathJoin(sep, rel_path, original_file))

\* the file that os.path.join(target_path, rel_path, name) names
UnderTarget(sep, rel_path, name) ==
    IF rel_path = Dot THEN name ELSE PathJoin(sep, rel_path, name)

\* lines 205-242: the walk over the sidecar directory of one version
RECURSIVE SidecarWalk(_, _, _, _, _)
SidecarWalk(sep, files, version, config, tree) ==
    IF files = <<>> THEN [raised |-> FALSE, tree |-> tree]
    ELSE LET f == Head(files)
             original_file == SubSeq(f.file, 1, Len(f.file) - 1)
             target_original_file == UnderTarget(sep, f.rel_path, original_file)
             target_mcmeta == UnderTarget(sep, f.rel_path, f.file)
         IN  IF f.file[Len(f.file)] # McmetaSuffix
             THEN SidecarWalk(sep, Tail(files), version, config, tree)
             ELSE IF ~(\/ IsSplitTarget(sep, config, f.rel_path, original_file)
                       \/ Exists(sep, tree, target_original_file))
             THEN SidecarWalk(sep, Tail(files), version, config, tree)
             ELSE IF ~WriteOK(sep, tree, target_mcmeta)
             THEN [raised |-> TRUE, tree |-> tree]
             ELSE SidecarWalk(sep, Tail(files), version, config,
                              WriteFile(tree, target_mcmeta, Sidecar(version)))

\* the sidecar walk ends one operation: the next operation starts, or True
\* is returned after the last one
Sidecars ==
    /\ pc = "sidecar"
    /\ UNCHANGED <<versions, zip_name, other_pc, image_run, temp_before, detected_version>>
    /\ LET op == operations[op_index]
           r == SidecarWalk(os_sep, McmetaFiles(op.version), op.version,
                            op.config, temp_dir.tree)
       IN  IF r.raised
           THEN /\ ReturnFalse
                /\ UNCHANGED <<temp_dir, op_index, applied>>
           ELSE /\ temp_dir' = Directory(r.tree)
                /\ applied' = Append(applied, op.version)
                /\ IF op_index < Len(operations)
                   THEN /\ op_index' = op_index + 1
                        /\ pc' = "removal"
                        /\ UNCHANGED success
                   ELSE /\ success' = TRUE
                        /\ pc' = "ask"
                        /\ UNCHANGED op_index
                /\ UNCHANGED dialog
    /\ UNCHANGED <<os_sep, config_dir, pack, source, target, configs,
                   current_version, version_path, operations, entry,
                   exclude_files, archive>>

(***************************************************************************)
(* on_confirm, second part: save dialog, packaging, cleanup.               *)
(***************************************************************************)
\* filedialog.asksaveasfilename: a path is chosen or the dialog is cancelled
AskSave ==
    /\ pc = "ask"
    /\ UNCHANGED <<versions, zip_name, other_pc, image_run, temp_before, detected_version>>
    /\ \E save_path \in {"", "out.zip"} :
          pc' = IF save_path # "" THEN "package" ELSE "finally"
    /\ UNCHANGED <<os_sep, config_dir, pack, temp_dir, source, target, configs,
                   current_version, version_path, operations, op_index, entry,
                   exclude_files, success, archive, dialog, applied>>

\* mutant of ArchiveEntries: the host path is checked and stored as it is
ArchiveEntriesHostPath(tree, excluded) ==
    {[name |-> k, content |-> tree[k]] :
        k \in {f \in DOMAIN tree : f \notin excluded}}

\* lines 969-978: the entries written to the zip file
ArchiveEntries(tree, excluded) ==
    {[name |-> ForwardSlashes(k), content |-> tree[k]] :
        k \in {f \in DOMAIN tree : ForwardSlashes(f) \notin excluded}}

\* lines 967-985; zipfile.ZipFile raises when save_path cannot be written
Package ==
    /\ pc = "package"
    /\ UNCHANGED <<versions, zip_name, other_pc, image_run, temp_before, detected_version>>
    /\ \/ /\ archive' = [written |-> TRUE,
                         entries |-> ArchiveEntries(temp_dir.tree, exclude_files)]
          /\ dialog' = "info"
          /\ pc' = "finally"
       \/ /\ pc' = "except"
          /\ UNCHANGED <<archive, dialog>>
    /\ UNCHANGED <<os_sep, config_dir, pack, temp_dir, source, target, configs,
                   current_version, version_path, operations, op_index, entry,
                   exclude_files, success, applied>>

\* lines 987-989
Except ==
    /\ pc = "except"
    /\ UNCHANGED <<versions, zip_name, other_pc, image_run, temp_before, detected_version>>
    /\ dialog' = "error"
    /\ pc' = "finally"
    /\ UNCHANGED <<os_sep, config_dir, pack, temp_dir, source, target, configs,
                   current_version, version_path, operations, op_index, entry,
                   exclude_files, success, archive, applied>>

\* mutant of Finally: the temporary directory is only removed after a run
\* without an error
FinallyKeepsOnError ==
    /\ pc = "finally"
    /\ UNCHANGED <<versions, zip_name, other_pc, image_run, temp_before, detected_version>>
    /\ temp_dir' = IF dialog = "error" THEN temp_dir ELSE Missing
    /\ pc' = "done"
    /\ UNCHANGED <<os_sep, config_dir, pack, source, target, configs,
                   current_version, version_path, operations, op_index, entry,
                   exclude_files, success, archive, dialog, applied>>

\* lines 991-994
Finally ==
    /\ pc = "finally"
    /\ UNCHANGED <<versions, zip_name, other_pc, image_run, temp_before, detected_version>>
    /\ temp_dir' = Missing
    /\ pc' = "done"
    /\ UNCHANGED <<os_sep, config_dir, pack, source, target, configs,
                   current_version, version_path, operations, op_index, entry,
                   exclude_files, success, archive, dialog, applied>>

\* the tree check_and_extract_zip unpacks from the written archive
ArchiveTree ==
    [n \in {e.name : e \in archive.entries} |->
        (CHOOSE e \in archive.entries : e.name = n).content]

\* the saved archive is added to the program and the conversion window is
\* opened on it: check_and_extract_zip takes only a zip that holds
\* pack.mcmeta, open_convert_window then reads the version off it.  In the
\* same run of the program the version list comes out as before.
Reopen ==
    /\ pc = "done"
    /\ archive.written
    /\ IF PackMcmeta \in DOMAIN ArchiveTree
       THEN /\ detected_version' = DetectVersion(ArchiveTree)
            /\ pc' = "reopened"
            /\ UNCHANGED dialog
       ELSE /\ dialog' = "warning"
            /\ pc' = "rejected"
            /\ UNCHANGED detected_version
    /\ UNCHANGED <<os_sep, config_dir, pack, temp_dir, source, target, configs,
                   current_version, version_path, operations, op_index, entry,
                   exclude_files, success, archive, applied, versions, zip_name,
                   other_pc, image_run, temp_before>>

Next ==
    \/ OpenConvertWindow
    \/ CopyToTemp
    \/ RewriteMcmeta
    \/ StartResolve
    \/ ResolveStep
    \/ FinishResolve
    \/ Removal
    \/ Split
    \/ Merge
    \/ Transparency
    \/ Sidecars
    \/ AskSave
    \/ Package
    \/ Except
    \/ Finally
    \/ Reopen

(***************************************************************************)
(* Specifications.  Spec explores conversions over few configs and many    *)
(* packs, SpecResolve many config directories and version pairs over few   *)
(* packs.                                                                  *)
(***************************************************************************)
ConvertVersions == {V_1_20_1, V_1_20_10, V_1_21, V_1_21_1, V_1_22}

InitConvert == InitOver({Slash, Backslash}, ConvertVersions, MaxConfigs,
                        {V_1_19, V_1_22}, {V_1_19, V_1_21, V_1_22}, MaxPackFiles,
                        McmetaChoices, {Missing}, {PackName},
                        {"idle"})

\* the converted pack is the one unpacked from temp_convert.zip
InitTempName == InitOver({Slash, Backslash}, {V_1_20_1}, MaxConfigs, {V_1_19},
                         {V_1_22}, MaxPackFiles, McmetaChoices, {Missing},
                         {TempName}, {"idle"})

\* config/1.18.json is in the config directory
InitUnreadable == InitOver({Slash}, {V_1_18, V_1_20_1}, MaxConfigs, {V_1_19},
                           {V_1_22}, 0, {<<Mcmeta(4)>>}, {Missing}, {PackName},
                           {"idle"})

\* config/1.21.4.json, whose step has an entry in every loop, is the last step
InitFullStep == InitOver({Slash, Backslash}, {V_1_21, V_1_21_4}, MaxConfigs,
                         {V_1_19}, {V_1_21_4}, MaxPackFiles, McmetaChoices,
                         {Missing}, {PackName}, {"idle"})

\* an earlier run has left a temp_convert directory behind
InitStale == InitOver({Slash, Backslash}, {V_1_20_1, V_1_22}, MaxConfigs,
                      {V_1_19}, {V_1_22}, MaxPackFiles, McmetaChoices,
                      {Directory(StaleTree)}, {PackName}, {"idle"})

\* packs of every format code and targets of every version of the two
\* tables, and one code and one version they do not hold; config/1.20.2.json
\* declares the versions
InitTables == InitOver({Slash}, {V_1_20_2}, 1, {V_1_19}, MappedVersions \cup {V_1_22},
                       0, {<<Mcmeta(c)>> : c \in MappedFormats \cup {4}}, {Missing},
                       {PackName}, {"idle"})

Init ==
    \/ InitConvert
    \/ InitTempName
    \/ InitUnreadable
    \/ InitFullStep
    \/ InitStale
    \/ InitTables

Spec == Init /\ [][Next]_vars

ResolveVersions == VersionStrings \ {V_1_22}

InitResolve == InitOver({Slash}, ResolveVersions, MaxStore, ResolveVersions,
                        ResolveVersions, 0, {<<Mcmeta(4)>>, <<Bytes>>}, {Missing},
                        {PackName}, {"idle"})

SpecResolve == InitResolve /\ [][Next]_vars

(***************************************************************************)
(* Properties.                                                             *)
(***************************************************************************)
\* get_version_operations has returned its plan
Resolved == current_version # NoVersion /\ pc # "resolve"

PlanVersions == [i \in 1..Len(operations) |-> operations[i].version]
PlanNums == [i \in 1..Len(operations) |-> VersionNum(operations[i].version)]

\* C1: for source and target of different keys, the keys of the returned plan
\* are monotonic in the direction from source to target, and every key lies in
\* (source, target] when ascending and in [target, source) when descending.
C1_PlanMonotonicInRange ==
    LET s == VersionNum(source)
        t == VersionNum(target)
        k == PlanNums
    IN  s # t =>
          IF t > s
          THEN /\ \A i \in 1..Len(k) : s < k[i] /\ k[i] <= t
               /\ \A i, j \in 1..Len(k) : i < j => k[i] <= k[j]
          ELSE /\ \A i \in 1..Len(k) : t <= k[i] /\ k[i] < s
               /\ \A i, j \in 1..Len(k) : i < j => k[i] >= k[j]

\* a descending plan of at least two steps, with a config beyond the target left out
C1_Witness ==
    /\ Resolved
    /\ VersionNum(target) < VersionNum(source)
    /\ Len(operations) >= 2
    /\ \E v \in Range(config_dir) : VersionNum(v) < VersionNum(target)

\* C2: the plan holds every registered config whose key lies strictly beyond
\* the source and up to and including the target, each exactly once, nearest
\* to the source first.
C2_PlanHoldsEveryConfigInRange ==
    LET s == VersionNum(source)
        t == VersionNum(target)
        InRange(n) == IF t > s THEN s < n /\ n <= t ELSE t <= n /\ n < s
        Dist(n) == IF n > s THEN n - s ELSE s - n
    IN  Resolved =>
          /\ \A v \in Range(config_dir) :
                (s # t /\ InRange(VersionNum(v))) =>
                    Cardinality({i \in 1..Len(operations) : PlanVersions[i] = v}) = 1
          /\ \A i \in 1..Len(operations) :
                /\ PlanVersions[i] \in Range(config_dir)
                /\ InRange(PlanNums[i])
          /\ \A i, j \in 1..Len(operations) :
                i < j => Dist(PlanNums[i]) <= Dist(PlanNums[j])

\* C3: for source = target the returned plan is empty, whatever is registered.
C3_SameVersionEmptyPlan ==
    (Resolved /\ source = target) => (operations = <<>> /\ version_path = <<>>)

\* source = target, with a config registered for that very version
C3_Witness ==
    /\ Resolved
    /\ pc = "ask"
    /\ source = target
    /\ source \in Range(config_dir)

\* C4: when the walk finds no next version before the target's key is
\* reached, get_version_operations returns the versions found so far without
\* raising, and a conversion that reaches the save dialog has applied exactly
\* that plan.
C4_GapGivesPartialPlan ==
    [][/\ (/\ pc = "resolve"
           /\ LoopContinues(current_version, target)
           /\ NextVersion(configs, current_version, source, target) = NoVersion)
          => /\ pc' \in {"removal", "ask"}
             /\ dialog' = "none"
             /\ [i \in 1..Len(operations') |-> operations'[i].version] = version_path
       /\ pc' = "ask" => applied' = version_path']_vars

\* a partial plan of at least one step has been applied, the target not reached
C4_Witness ==
    /\ pc = "ask"
    /\ Len(applied) >= 1
    /\ VersionNum(current_version) # VersionNum(target)
    /\ \A v \in Range(config_dir) : VersionNum(v) # VersionNum(target)

\* a path with every backslash turned into a forward slash
Normalized(p) == [i \in 1..Len(p) |-> IF p[i] = Backslash THEN Slash ELSE p[i]]

ArchiveNames == {e.name : e \in archive.entries}

\* the split targets declared by the first n operations of the plan
DeclaredSplitTargets(n) ==
    UNION {UNION {{e.splits[k].target : k \in 1..Len(e.splits)} :
                     e \in Range(operations[i].config.split_operations)} :
              i \in 1..n}

\* the split targets of the first n operations whose split_image call had a
\* readable source image in the source pack, a valid rectangle and a target
\* that can be written in tree
PerformedSplitTargets(n, tree) ==
    UNION {UNION {{e.splits[k].target :
                      k \in {l \in 1..Len(e.splits) :
                                /\ HostKey(os_sep, e.source_file) \in DOMAIN pack
                                /\ pack[HostKey(os_sep, e.source_file)].kind = "image"
                                /\ CropOK(e.splits[l].source)
                                /\ WriteOK(os_sep, tree,
                                           HostKey(os_sep, e.splits[l].target))}} :
                     e \in Range(operations[i].config.split_operations)} :
              i \in 1..n}

\* C5 as claimed: a written archive has no entry whose path is in the
\* exclusion set, and has an entry for every split target declared by an
\* applied step that is not itself excluded.
C5_ArchiveHoldsEverySplitTarget ==
    (pc = "finally" /\ archive.written) =>
        /\ \A n \in ArchiveNames : n \notin exclude_files
        /\ \A t \in DeclaredSplitTargets(Len(applied)) :
              Normalized(t) \notin exclude_files => Normalized(t) \in ArchiveNames

\* C5 as amended: a written archive has no entry whose path is in the
\* exclusion set, and has an entry for every split target, not itself
\* excluded, of an applied step whose split had a readable source image in the
\* source pack, a valid rectangle and a writable target path.
C5_ArchiveHoldsPerformedSplitTargets ==
    (pc = "finally" /\ archive.written) =>
        /\ \A n \in ArchiveNames : n \notin exclude_files
        /\ \A t \in PerformedSplitTargets(Len(applied), temp_dir.tree) :
              Normalized(t) \notin exclude_files => Normalized(t) \in ArchiveNames

\* an archive with a performed split target in it and an excluded file left out
C5_Witness ==
    /\ pc = "finally"
    /\ archive.written
    /\ \E t \in PerformedSplitTargets(Len(applied), temp_dir.tree) :
          Normalized(t) \in ArchiveNames
    /\ \E f \in DOMAIN temp_dir.tree : Normalized(f) \in exclude_files

\* C6: the entries of a written archive are exactly the files of the final
\* working tree whose forward-slash path is not in the exclusion set, under
\* that path, and no entry name holds a backslash.
C6_ArchiveIsTreeMinusExcluded ==
    (pc = "finally" /\ archive.written) =>
        /\ archive.entries =
              {[name |-> Normalized(k), content |-> temp_dir.tree[k]] :
                  k \in {f \in DOMAIN temp_dir.tree : Normalized(f) \notin exclude_files}}
        /\ \A n \in ArchiveNames : Backslash \notin Range(n)

\* an archive of a tree with a backslash in a file key and an excluded file
C6_Witness ==
    /\ pc = "finally"
    /\ archive.written
    /\ \E f \in DOMAIN temp_dir.tree : Backslash \in Range(f)
    /\ \E f \in DOMAIN temp_dir.tree : Normalized(f) \in exclude_files
    /\ archive.entries # {}

\* C7: from the copy until the cleanup no step takes a file out of the
\* working tree, and at packaging time every excluded path that the source
\* pack holds is still a file of the tree.
C7_NoFileLeavesTheTree ==
    [][/\ pc \notin {"open", "confirm", "finally", "done"} =>
              /\ temp_dir.exists => temp_dir'.exists
              /\ DOMAIN temp_dir.tree \subseteq DOMAIN temp_dir'.tree
       /\ pc = "package" =>
              \A p \in exclude_files :
                  HostKey(os_sep, p) \in DOMAIN pack =>
                      HostKey(os_sep, p) \in DOMAIN temp_dir.tree]_vars

\* packaging starts with an excluded file of the pack in the tree
C7_Witness ==
    /\ pc = "package"
    /\ \E p \in exclude_files : HostKey(os_sep, p) \in DOMAIN pack

\* the union of removed_files of the first n operations
RemovedUpTo(ops, n) == UNION {Range(ops[i].config.removed_files) : i \in 1..n}

\* C8: no step takes a path out of the exclusion set, and at every step
\* boundary the set is the union of removed_files of the steps applied so far.
C8_ExclusionSetGrows ==
    [][/\ exclude_files \subseteq exclude_files'
       /\ pc' = "ask" => exclude_files' = RemovedUpTo(operations', Len(applied'))
       /\ (pc' = "removal" /\ pc # "removal") =>
              exclude_files' = RemovedUpTo(operations', Len(applied'))]_vars

\* a path excluded by the first step has been written by the second
C8_Witness ==
    /\ pc = "ask"
    /\ Len(applied) = 2
    /\ P_a \in Range(operations[1].config.removed_files)
    /\ P_a \in exclude_files
    /\ ~IsFile(pack, P_a)
    /\ IsFile(temp_dir.tree, P_a)

\* the plan is the single step of version 1.20.1 (removed_files [a.png], split
\* of b.png into tex/c.png) and the source pack holds the images a.png and b.png
C9_Scenario ==
    /\ Len(operations) = 1
    /\ operations[1].version = V_1_20_1
    /\ P_a \in Range(operations[1].config.removed_files)
    /\ \E e \in Range(operations[1].config.split_operations) :
          e.source_file = P_b /\ e.splits = <<[source |-> <<0, 0, 1, 1>>, target |-> P_tex_c]>>
    /\ IsFile(pack, P_a) /\ IsImage(pack[P_a])
    /\ IsFile(pack, P_b) /\ IsImage(pack[P_b])

\* the 1x1 image holding the top-left pixel of img
TopLeftPixel(img) == MakeImage(1, 1, [p \in {<<0, 0>>} |-> img.px[<<0, 0>>]])

\* C9: after the single step of the scenario the tree holds b.png unchanged
\* and tex/c.png equal to the declared rectangle of b.png, a.png is excluded,
\* and a written archive omits a.png and holds that tex/c.png; and a split
\* entry whose source is absent from the working tree changes nothing, raises
\* nothing and lets the step go on.
C9_RemoveAndSplitScenario ==
    [][/\ (C9_Scenario /\ Len(applied) = 1 /\ temp_dir.exists) =>
              /\ IsFile(temp_dir.tree, P_b)
              /\ temp_dir.tree[P_b] = pack[P_b]
              /\ IsFile(temp_dir.tree, HostKey(os_sep, P_tex_c))
              /\ temp_dir.tree[HostKey(os_sep, P_tex_c)] = TopLeftPixel(pack[P_b])
              /\ P_a \in exclude_files
              /\ archive.written =>
                    /\ P_a \notin ArchiveNames
                    /\ [name |-> P_tex_c, content |-> TopLeftPixel(pack[P_b])]
                          \in archive.entries
       /\ (/\ pc = "split"
           /\ ~Exists(os_sep, temp_dir.tree,
                      HostKey(os_sep, operations[op_index].config
                                          .split_operations[entry].source_file)))
          => /\ temp_dir' = temp_dir
             /\ dialog' = dialog
             /\ pc' \in {"split", "merge", "transparency", "sidecar"}]_vars

\* the scenario has been packaged; its split of the absent q.png made no tex/e.png
C9_Witness ==
    /\ C9_Scenario
    /\ pc = "finally"
    /\ archive.written
    /\ ~IsFile(temp_dir.tree, HostKey(os_sep, P_tex_e))
    /\ P_tex_c \in ArchiveNames

\* C10: a merge whose overlay is absent from the working tree leaves the
\* whole tree as it is, raises nothing, and control goes on to the next merge
\* entry or the next loop of the step.
C10_MissingOverlaySkipsMerge ==
    [][(/\ pc = "merge"
        /\ ~Exists(os_sep, temp_dir.tree,
                   HostKey(os_sep, MergeList(operations[op_index].config
                                                 .merge_operations)[entry].source)))
       => /\ temp_dir' = temp_dir
          /\ dialog' = dialog
          /\ success' = success
          /\ LET n == Len(MergeList(operations[op_index].config.merge_operations))
             IN  IF entry < n
                 THEN pc' = "merge" /\ entry' = entry + 1
                 ELSE pc' \in {"transparency", "sidecar"}]_vars

\* overlay.png was absent, and the merge after it has changed b.png
C10_Witness ==
    /\ pc = "sidecar"
    /\ applied = <<>>
    /\ operations[op_index].version = V_1_21
    /\ ~Exists(os_sep, temp_dir.tree, P_overlay)
    /\ IsFile(pack, P_b)
    /\ temp_dir.tree[P_b] # pack[P_b]

\* C11: in the archive of a successful conversion the pack_format of
\* pack.mcmeta is the code the table of on_confirm gives for the target
\* version (15 for 1.20.1, 30 for 1.21) and 15 for a target the table does
\* not hold, whatever code the pack had and whatever steps were applied.
C11_ArchiveCarriesTargetFormat ==
    archive.written =>
        \A e \in archive.entries :
            e.name = PackMcmeta =>
                /\ e.content = Mcmeta(VersionFormat(target))
                /\ target = V_1_20_1 => e.content.pack_format = 15
                /\ target = V_1_21 => e.content.pack_format = 30
                /\ target \in {V_1_19, V_1_20_10, V_1_21_1, V_1_21_4, V_1_22} =>
                       e.content.pack_format = 15

\* an archive with the code 30 of target 1.21, made from a pack of code 4 by
\* a plan of at least one step
C11_Witness ==
    /\ archive.written
    /\ target = V_1_21
    /\ pack[PackMcmeta] = Mcmeta(4)
    /\ applied # <<>>
    /\ [name |-> PackMcmeta, content |-> Mcmeta(30)] \in archive.entries

\* C12: once on_confirm has returned, whether after packaging, after a
\* declined save dialog, after process_version_conversion returned False or
\* after an exception of copytree, of the pack.mcmeta rewrite or of the
\* packaging, the temporary directory does not exist.
C12_TempDirGoneOnReturn == pc = "done" => ~temp_dir.exists

\* on_confirm has returned after process_version_conversion gave up in the
\* middle of a step, with files of the pack copied before
C12_Witness ==
    /\ pc = "done"
    /\ ~success
    /\ dialog = "error"
    /\ op_index > 0
    /\ DOMAIN pack # {}
    /\ ~temp_dir.exists

\* C13: no step of a run creates, changes or deletes a file of the source
\* pack directory; every write goes to the temporary tree or the archive.
C13_SourcePackUntouched == [][pack' = pack]_vars

\* C14: an image that cannot be processed in the split, merge or
\* transparency loop is skipped: the step leaves the loops of
\* process_version_conversion running, no error is reported and False is
\* not returned.
C14_ImageErrorSkipsFile ==
    [][(pc \in {"split", "merge", "transparency"}) =>
           (/\ pc' \in {"split", "merge", "transparency", "sidecar"}
            /\ dialog' = dialog)]_vars

\* the records of the config files that json.load accepts, in listing order
RECURSIVE ReadableConfigs(_)
ReadableConfigs(dir) ==
    IF dir = <<>> THEN <<>>
    ELSE (IF Loads(Head(dir))
          THEN <<[version |-> Head(dir), config |-> ConfigFile(Head(dir))]>>
          ELSE <<>>) \o ReadableConfigs(Tail(dir))

\* C15: a config file that cannot be read is skipped and the readable ones
\* are still loaded: the window lists the versions they declare, and the
\* resolver starts its walk over their records.
C15_UnreadableConfigSkipped ==
    [][/\ pc = "open" =>
              Range(versions') =
                  UNION {Range(ConfigVersions(r.version)) :
                            r \in {x \in Range(ReadableConfigs(config_dir)) :
                                      ConfigVersions(x.version) # NoKey}}
       /\ pc = "convert" =>
              /\ pc' = "resolve"
              /\ configs' = ReadableConfigs(config_dir)]_vars

\* C16: the list of the conversion window holds every version a readable
\* config declares exactly once, and runs in descending order of the key
\* the resolver compares, float(version.replace('1.', '')).
C16_ListedOnceInResolverOrder ==
    pc # "open" =>
        /\ Range(versions) = DeclaredVersions
        /\ \A i, j \in 1..Len(versions) : i # j => versions[i] # versions[j]
        /\ \A i, j \in 1..Len(versions) :
               i < j => VersionNum(versions[i]) >= VersionNum(versions[j])

(***************************************************************************)
(* A whole conversion as a function of its inputs: the walk of             *)
(* get_version_operations and the loops of process_version_conversion,     *)
(* composed from the operators the steps above apply.                      *)
(***************************************************************************)
\* lines 126-146: the version path found from `current` on
RECURSIVE ResolvePath(_, _, _, _, _)
ResolvePath(cfgs, current, source_version, target_version, path) ==
    IF ~LoopContinues(current, target_version) THEN path
    ELSE LET next_version == NextVersion(cfgs, current, source_version,
                                         target_version)
         IN  IF next_version = NoVersion THEN path
             ELSE ResolvePath(cfgs, next_version, source_version,
                              target_version, Append(path, next_version))

\* lines 174-180
RECURSIVE SplitAll(_, _, _, _)
SplitAll(sep, from_tree, tree, entries) ==
    IF entries = <<>> THEN tree
    ELSE SplitAll(sep, from_tree, SplitEntry(sep, from_tree, tree, Head(entries)),
                  Tail(entries))

\* lines 182-189
RECURSIVE MergeAll(_, _, _, _)
MergeAll(sep, from_tree, tree, merges) ==
    IF merges = <<>> THEN tree
    ELSE MergeAll(sep, from_tree, MergeEntry(sep, from_tree, tree, Head(merges)),
                  Tail(merges))

\* lines 191-198
RECURSIVE TransparencyAll(_, _, _, _)
TransparencyAll(sep, from_tree, tree, entries) ==
    IF entries = <<>> THEN [raised |-> FALSE, tree |-> tree]
    ELSE LET r == TransparencyEntry(sep, from_tree, tree, Head(entries))
         IN  IF r.raised THEN r
             ELSE TransparencyAll(sep, from_tree, r.tree, Tail(entries))

\* lines 164-244: one operation applied to [ok, tree, exclude_files]
ApplyOperation(sep, from_tree, st, op) ==
    LET excluded == st.exclude_files \cup Range(op.config.removed_files)
        split == SplitAll(sep, from_tree, st.tree, op.config.split_operations)
        merged == MergeAll(sep, from_tree, split,
                           MergeList(op.config.merge_operations))
        masked == TransparencyAll(sep, from_tree, merged,
                                  op.config.transparency_operations)
        walked == SidecarWalk(sep, McmetaFiles(op.version), op.version,
                              op.config, masked.tree)
    IN  IF masked.raised
        THEN [ok |-> FALSE, tree |-> masked.tree, exclude_files |-> excluded]
        ELSE [ok |-> ~walked.raised, tree |-> walked.tree,
              exclude_files |-> excluded]

\* lines 163-248: the operations in order, up to the first that raises
RECURSIVE ApplyOperations(_, _, _, _)
ApplyOperations(sep, from_tree, st, ops) ==
    IF ops = <<>> \/ ~st.ok THEN st
    ELSE ApplyOperations(sep, from_tree,
                         ApplyOperation(sep, from_tree, st, Head(ops)), Tail(ops))

\* lines 919-954 for a pack whose pack.mcmeta, if any, is JSON, and a config
\* directory listed in the order dir
ConversionOutcome(sep, dir, from_tree, source_version, target_version) ==
    LET cfgs == [i \in 1..Len(dir) |->
                    [version |-> dir[i], config |-> ConfigFile(dir[i])]]
        path == ResolvePath(cfgs, source_version, source_version,
                            target_version, <<>>)
        copy == IF Exists(sep, from_tree, PackMcmeta)
                THEN WriteFile(from_tree, PackMcmeta,
                               Mcmeta(VersionFormat(target_version)))
                ELSE from_tree
    IN  ApplyOperations(sep, from_tree,
                        [ok |-> TRUE, tree |-> copy, exclude_files |-> {}],
                        CollectOperations(cfgs, path))

\* the orders in which os.listdir can list the files of the config directory
ListingOrders(dir) ==
    {d \in DistinctSeqs(Range(dir), Len(dir)) : Len(d) = Len(dir)}

\* C17: a conversion is a function of the pack, the two versions and the
\* set of config files: when process_version_conversion has returned True,
\* the working tree, the exclusion set and so the archive are those of the
\* same conversion run with the config directory listed in any other order.
C17_OutcomeIndependentOfListing ==
    pc = "ask" =>
        \A d \in ListingOrders(config_dir) :
            ConversionOutcome(os_sep, d, pack, source, target)
                = [ok |-> TRUE, tree |-> temp_dir.tree,
                   exclude_files |-> exclude_files]

(***************************************************************************)
(* The image functions on their own: apply_transparency applied to one     *)
(* file twice, and split_image followed by merge_images, on small images   *)
(* with every combination of alpha values.  image_run holds the files.     *)
(***************************************************************************)
MaxWidth == 2

AlphaLevels == {0, 128, 255}

\* images of two rows, every pixel of another colour
TestImages ==
    UNION {{MakeImage(w, 2, [p \in Coords(w, 2) |-> <<10 + 4 * p[2] + p[1], a[p]>>]) :
               a \in [Coords(w, 2) -> AlphaLevels]} : w \in 2..MaxWidth}

\* images to merge onto: transparent black, opaque, half transparent
BaseImages(w) ==
    {MakeImage(w, 2, [p \in Coords(w, 2) |-> px]) :
        px \in {<<0, 0>>, <<200, 255>>, <<100, 128>>}}

KeepAreas(w) == (0..(w - 1)) \X (0..1) \X (0..(w - 1)) \X (0..1)

\* two adjacent crop boxes that cover an image of width w and height 2
Cuts(w) ==
    {<<(<<0, 0, x, 2>>), (<<x, 0, w, 2>>)>> : x \in 1..(w - 1)}
        \cup {<<(<<0, 0, w, 1>>), (<<0, 1, w, 2>>)>>}

\* no conversion is running
NoConversion ==
    /\ os_sep = Slash
    /\ config_dir = <<>>
    /\ pack = EmptyTree
    /\ temp_dir = Missing
    /\ source = NoVersion
    /\ target = NoVersion
    /\ pc = "closed"
    /\ configs = <<>>
    /\ current_version = NoVersion
    /\ version_path = <<>>
    /\ operations = <<>>
    /\ op_index = 0
    /\ entry = 0
    /\ exclude_files = {}
    /\ success = FALSE
    /\ archive = NoArchive
    /\ applied = <<>>
    /\ dialog = "none"
    /\ versions = <<>>
    /\ zip_name = PackName
    /\ other_pc = "idle"
    /\ temp_before = Missing
    /\ detected_version = NoVersion

InitImage ==
    /\ NoConversion
    /\ \E i \in TestImages :
          image_run = [step |-> "start", original |-> i,
                       tree |-> [k \in {P_b} |-> i], keep_area |-> <<>>,
                       base |-> i]

\* apply_transparency(b.png, keep_area)
MaskImage ==
    /\ image_run.step = "start"
    /\ \E keep_area \in KeepAreas(image_run.original.w) :
          image_run' = [image_run EXCEPT
                           !.step = "masked",
                           !.keep_area = keep_area,
                           !.tree = apply_transparency(@, P_b, keep_area)]
    /\ UNCHANGED <<os_sep, config_dir, pack, temp_dir, source, target, pc,
                   configs, current_version, version_path, operations,
                   op_index, entry, exclude_files, success, archive, applied,
                   dialog, versions, zip_name, other_pc, temp_before,
                   detected_version>>

\* the same call once more
MaskImageAgain ==
    /\ image_run.step = "masked"
    /\ image_run' = [image_run EXCEPT
                        !.step = "masked again",
                        !.tree = apply_transparency(@, P_b, image_run.keep_area)]
    /\ UNCHANGED <<os_sep, config_dir, pack, temp_dir, source, target, pc,
                   configs, current_version, version_path, operations,
                   op_index, entry, exclude_files, success, archive, applied,
                   dialog, versions, zip_name, other_pc, temp_before,
                   detected_version>>

\* split_image(b.png, box, part) for the two boxes of a cut
SplitImage ==
    /\ image_run.step = "start"
    /\ \E cut \in Cuts(image_run.original.w) :
          image_run' = [image_run EXCEPT
                           !.step = "split",
                           !.keep_area = cut,
                           !.tree = split_image(Slash, @,
                                        split_image(Slash, @, @, P_b, cut[1], P_tex_c),
                                        P_b, cut[2], P_tex_e)]
    /\ UNCHANGED <<os_sep, config_dir, pack, temp_dir, source, target, pc,
                   configs, current_version, version_path, operations,
                   op_index, entry, exclude_files, success, archive, applied,
                   dialog, versions, zip_name, other_pc, temp_before,
                   detected_version>>

\* merge_images(a.png, part, position) for the two parts, each at the left
\* top corner of its box, onto an image a.png of the original's size
MergeParts ==
    /\ image_run.step = "split"
    /\ \E base \in BaseImages(image_run.original.w) :
          LET cut == image_run.keep_area
              tree == WriteFile(image_run.tree, P_a, base)
          IN  image_run' = [image_run EXCEPT
                               !.step = "merged",
                               !.base = base,
                               !.tree = merge_images(tree,
                                            merge_images(tree, tree, P_a, P_tex_c,
                                                         <<cut[1][1], cut[1][2]>>),
                                            P_a, P_tex_e,
                                            <<cut[2][1], cut[2][2]>>)]
    /\ UNCHANGED <<os_sep, config_dir, pack, temp_dir, source, target, pc,
                   configs, current_version, version_path, operations,
                   op_index, entry, exclude_files, success, archive, applied,
                   dialog, versions, zip_name, other_pc, temp_before,
                   detected_version>>

NextImage ==
    \/ MaskImage
    \/ MaskImageAgain
    \/ SplitImage
    \/ MergeParts

SpecImage == InitImage /\ [][NextImage]_vars

\* C18: apply_transparency is idempotent: the second call with the same
\* keep area on the same file leaves the file as the first call left it.
C18_MaskingIdempotent ==
    [][(image_run.step = "masked") => image_run'.tree = image_run.tree]_vars

\* both calls were made on an image of which the first call cleared a
\* visible pixel and kept another one
C18_Witness ==
    /\ image_run.step = "masked again"
    /\ \E p, q \in DOMAIN image_run.original.px :
          /\ image_run.original.px[p][2] > 0
          /\ image_run.tree[P_b].px[p][2] = 0
          /\ image_run.original.px[q][2] > 0
          /\ image_run.tree[P_b].px[q] = image_run.original.px[q]

\* C19, as claimed: the two crops merged back at the corners of their boxes
\* give the original image, alpha included.
C19_SplitMergeReconstructs ==
    image_run.step = "merged" => image_run.tree[P_a] = image_run.original

\* C19, amended: the merge gives back every pixel whose alpha is 255 and
\* leaves the base image's pixel where the alpha is 0, so it reconstructs
\* every image whose pixels are all opaque.
C19_SplitMergeReconstructsOpaque ==
    image_run.step = "merged" =>
        /\ \A p \in DOMAIN image_run.original.px :
              /\ image_run.original.px[p][2] = 255 =>
                     image_run.tree[P_a].px[p] = image_run.original.px[p]
              /\ image_run.original.px[p][2] = 0 =>
                     image_run.tree[P_a].px[p] = image_run.base.px[p]
        /\ (\A p \in DOMAIN image_run.original.px :
               image_run.original.px[p][2] = 255) =>
                  image_run.tree[P_a] = image_run.original

\* an opaque image was split and merged onto a different image
C19_Witness ==
    /\ image_run.step = "merged"
    /\ \A p \in DOMAIN image_run.original.px : image_run.original.px[p][2] = 255
    /\ image_run.base # image_run.original
    /\ image_run.tree[P_a] = image_run.original

(***************************************************************************)
(* Two instances of the program convert two different packs at the same    *)
(* time.  Of the second instance's on_confirm the model keeps the steps    *)
(* that create and remove its temporary directory, which line 913 places   *)
(* at the same path packagecache/temp_convert.                             *)
(***************************************************************************)
\* the pack the second instance converts
OtherPack == [k \in {PackMcmeta, P_q} |-> IF k = P_q THEN Bytes ELSE Mcmeta(4)]

\* lines 913-919 of the second instance
OtherCopyToTemp ==
    /\ other_pc = "confirm"
    /\ temp_dir' = Directory(OtherPack)
    /\ other_pc' = "running"
    /\ UNCHANGED <<os_sep, config_dir, pack, source, target, pc, configs,
                   current_version, version_path, operations, op_index, entry,
                   exclude_files, success, archive, applied, dialog, versions,
                   zip_name, image_run, temp_before, detected_version>>

\* lines 991-994 of the second instance
OtherFinally ==
    /\ other_pc = "running"
    /\ temp_dir' = Missing
    /\ other_pc' = "done"
    /\ UNCHANGED <<os_sep, config_dir, pack, source, target, pc, configs,
                   current_version, version_path, operations, op_index, entry,
                   exclude_files, success, archive, applied, dialog, versions,
                   zip_name, image_run, temp_before, detected_version>>

InitTwo == InitOver({Slash}, ConvertVersions, MaxConfigs, {V_1_19}, {V_1_22},
                    MaxPackFiles, {<<Mcmeta(4)>>, <<Bytes>>}, {Missing},
                    {PackName}, {"confirm"})

NextTwo ==
    \/ Next
    \/ OtherCopyToTemp
    \/ OtherFinally

SpecTwo == InitTwo /\ [][NextTwo]_vars

\* C20: a conversion running at the same time as the conversion of another
\* pack is not affected by it: no step of the other run changes this run's
\* working tree, and the archive is the one the conversion gives alone.
C20_RunsIndependent ==
    [][/\ other_pc' # other_pc => temp_dir' = temp_dir
       /\ archive'.written =>
              archive'.entries =
                  LET alone == ConversionOutcome(os_sep, config_dir, pack,
                                                 source, target)
                  IN  ArchiveEntries(alone.tree, alone.exclude_files)]_vars

\* C21: split, merge and transparency masking take their inputs from the
\* working tree as the preceding operations left it: the source of an entry
\* counts as present when it exists in the working tree at that moment, and
\* the content read is the working tree's content, so each entry changes the
\* tree as the same entry reading the working tree would.
C21_InputsFromWorkingTree ==
    [][/\ pc = "split" =>
              temp_dir'.tree =
                  SplitEntry(os_sep, temp_dir.tree, temp_dir.tree,
                             operations[op_index].config.split_operations[entry])
       /\ pc = "merge" =>
              temp_dir'.tree =
                  MergeEntry(os_sep, temp_dir.tree, temp_dir.tree,
                             MergeList(operations[op_index].config
                                           .merge_operations)[entry])
       /\ pc = "transparency" =>
              LET r == TransparencyEntry(os_sep, temp_dir.tree, temp_dir.tree,
                           operations[op_index].config
                               .transparency_operations[entry])
              IN  IF r.raised THEN pc' = "finally"
                  ELSE temp_dir'.tree = r.tree]_vars

\* the loops of one plan step, and the place of each in lines 170-242
StepLoops == {"removal", "split", "merge", "transparency", "sidecar"}

StepRank(loop) ==
    CASE loop = "removal" -> 1
      [] loop = "split" -> 2
      [] loop = "merge" -> 3
      [] loop = "transparency" -> 4
      [] loop = "sidecar" -> 5

\* C22: the plan steps are applied in plan order and one at a time: within a
\* step control moves through removal, split, merge, transparency masking and
\* sidecar propagation in that order, each loop visiting its entries in the
\* declared order and none being left before its last entry; the next step
\* starts only after the sidecar walk of the step before it, and the steps
\* completed are always a prefix of the plan.
C22_StepsInPlanOrder ==
    [][/\ (pc \notin StepLoops /\ pc' \in StepLoops) =>
              pc' = "removal" /\ op_index' = 1 /\ applied' = <<>>
       /\ pc \in StepLoops =>
              /\ operations' = operations
              /\ op_index \in 1..Len(operations)
              /\ applied = SubSeq(PlanVersions, 1, op_index - 1)
       /\ (pc \in StepLoops /\ pc' \in StepLoops) =>
              LET config == operations[op_index].config
              IN  \/ /\ op_index' = op_index
                     /\ applied' = applied
                     /\ StepRank(pc') >= StepRank(pc)
                     /\ pc' = pc => entry' = entry + 1
                     /\ pc' # pc =>
                            /\ entry' = 1
                            /\ pc \in {"split", "merge", "transparency"} =>
                                   entry = Len(PhaseEntries(config, pc))
                            /\ \A l \in StepLoops :
                                   (StepRank(pc) < StepRank(l) /\ StepRank(l) < StepRank(pc'))
                                       => PhaseEntries(config, l) = <<>>
                  \/ /\ pc = "sidecar"
                     /\ pc' = "removal"
                     /\ op_index' = op_index + 1
                     /\ applied' = Append(applied, operations[op_index].version)
       /\ (pc \in StepLoops /\ pc' = "ask") =>
              /\ pc = "sidecar"
              /\ op_index = Len(operations)
              /\ applied' = PlanVersions]_vars

\* the step of 1.21.4 has run after the step of 1.21: its merge has pasted
\* overlay.png onto the a.png its split had just written, and its masking has
\* written tex/c.png
C22_Witness ==
    /\ pc = "ask"
    /\ applied = <<V_1_21, V_1_21_4>>
    /\ IsFile(pack, P_b) /\ IsImage(pack[P_b])
    /\ IsFile(pack, P_overlay) /\ IsImage(pack[P_overlay])
    /\ temp_dir.tree[P_a] = Paste(Crop(pack[P_b], <<0, 0, 1, 2>>), pack[P_overlay], <<0, 0>>)
    /\ temp_dir.tree[P_a] # Crop(pack[P_b], <<0, 0, 1, 2>>)
    /\ IsFile(temp_dir.tree, HostKey(os_sep, P_tex_c))

\* the pixel p lies in the keep rectangle (left, top, right, bottom), the four
\* bounds included
InKeepArea(p, keep_area) ==
    /\ keep_area[1] <= p[1] /\ p[1] <= keep_area[3]
    /\ keep_area[2] <= p[2] /\ p[2] <= keep_area[4]

\* C23: after apply_transparency(image, keep_area) the image has its size,
\* every pixel outside the keep rectangle (bounds inclusive) has alpha 0 and
\* its colour unchanged, and every pixel inside the rectangle is as it was,
\* its alpha included.
C23_MaskClearsOutsideOnly ==
    image_run.step = "masked" =>
        LET before == image_run.original
            after == image_run.tree[P_b]
        IN  /\ after.w = before.w /\ after.h = before.h
            /\ DOMAIN after.px = DOMAIN before.px
            /\ \A p \in DOMAIN before.px :
                  IF InKeepArea(p, image_run.keep_area)
                  THEN after.px[p] = before.px[p]
                  ELSE after.px[p] = <<before.px[p][1], 0>>

\* a call that kept a half transparent pixel on the right and bottom bound of
\* the rectangle and cleared an opaque pixel outside it
C23_Witness ==
    /\ image_run.step = "masked"
    /\ \E p, q \in DOMAIN image_run.original.px :
          /\ p[1] = image_run.keep_area[3] /\ p[2] = image_run.keep_area[4]
          /\ InKeepArea(p, image_run.keep_area)
          /\ image_run.original.px[p][2] = 128
          /\ image_run.tree[P_b].px[p][2] = 128
          /\ ~InKeepArea(q, image_run.keep_area)
          /\ image_run.original.px[q][2] = 255
          /\ image_run.tree[P_b].px[q] = <<image_run.original.px[q][1], 0>>

\* the sidecar files among the files of config/mcmetaFile/<version>
SidecarFiles(version) ==
    {f \in Range(McmetaFiles(version)) : f.file[Len(f.file)] = McmetaSuffix}

\* the image a sidecar file belongs to, as a path relative to the pack
ImageOf(f) ==
    LET original_file == SubSeq(f.file, 1, Len(f.file) - 1)
    IN  IF f.rel_path = Dot THEN original_file
        ELSE f.rel_path \o <<Slash>> \o original_file

\* the split targets one config declares
SplitTargetsOf(config) ==
    UNION {{e.splits[k].target : k \in 1..Len(e.splits)} :
              e \in Range(config.split_operations)}

\* C24: the sidecar walk of a step copies a sidecar file of the step's
\* version next to its image exactly when the image exists in the working
\* tree after the step's removal, split, merge and masking, or the image path
\* is one of the step's declared split targets; it writes nothing else, so no
\* sidecar of another version's directory is copied in that step.
C24_SidecarCopiedIffImageOrSplitTarget ==
    [][(pc = "sidecar" /\ pc' # "finally") =>
           LET op == operations[op_index]
               before == temp_dir.tree
               after == temp_dir'.tree
               copied(k) == k \in DOMAIN after /\ after[k] = Sidecar(op.version)
           IN  /\ \A f \in SidecarFiles(op.version) :
                      copied(HostKey(os_sep, ImageOf(f)) \o <<McmetaSuffix>>)
                          <=> \/ Exists(os_sep, before, HostKey(os_sep, ImageOf(f)))
                              \/ \E t \in SplitTargetsOf(op.config) :
                                     Normalized(t) = ImageOf(f)
               /\ \A k \in DOMAIN after :
                      (k \notin DOMAIN before \/ after[k] # before[k]) =>
                          /\ after[k] = Sidecar(op.version)
                          /\ \E f \in SidecarFiles(op.version) :
                                 k = HostKey(os_sep, ImageOf(f)) \o <<McmetaSuffix>>
               /\ \A k \in DOMAIN before : k \in DOMAIN after]_vars

\* a version string without its leading "1." (only the prefix is taken off)
StripLeadingPrefix(version) ==
    IF Len(version) >= 2 /\ SubSeq(version, 1, 2) = <<"1", ".">>
    THEN SubSeq(version, 3, Len(version))
    ELSE version

\* C25: the key the resolver compares is the decimal number that is left of
\* the version string when only its leading "1." is taken off, and any two
\* different version strings among the config names, the source and the
\* target have different keys.
C25_KeysFromPrefixAndDistinct ==
    pc = "resolve" =>
        LET used == Range(config_dir) \cup {source, target}
        IN  /\ \A v \in used : VersionNum(v) = ParseFloat(StripLeadingPrefix(v))
            /\ \A u, v \in used : u # v => VersionNum(u) # VersionNum(v)

\* the registered versions the loop can still choose: their key lies beyond
\* the current version's and up to the target's
Candidates(cfgs, current, source_version, target_version) ==
    LET c == VersionNum(current)
        t == VersionNum(target_version)
    IN  {i \in 1..Len(cfgs) :
            IF t > VersionNum(source_version)
            THEN c < VersionNum(cfgs[i].version) /\ VersionNum(cfgs[i].version) <= t
            ELSE t <= VersionNum(cfgs[i].version) /\ VersionNum(cfgs[i].version) < c}

\* C26: the while loop of get_version_operations terminates: every iteration
\* moves the current version's key strictly toward the target's, not beyond
\* it and not out of the closed interval between the source's and the
\* target's key, takes at least one registered version out of those that can
\* still be chosen, and the iterations made never outnumber the registered
\* configs.
C26_ResolveLoopTerminates ==
    [][(pc = "resolve") =>
           LET s == VersionNum(source)
               t == VersionNum(target)
               c == VersionNum(current_version)
               d == VersionNum(current_version')
           IN  /\ Len(version_path) <= Len(config_dir)
               /\ (pc' = "resolve") =>
                      /\ IF t > s THEN c < d /\ d <= t /\ s <= d
                                  ELSE d < c /\ t <= d /\ d <= s
                      /\ Len(version_path') = Len(version_path) + 1
                      /\ Len(version_path') <= Len(config_dir)
                      /\ Candidates(configs, current_version', source, target)
                             \subseteq Candidates(configs, current_version, source, target)
                      /\ Candidates(configs, current_version', source, target)
                             # Candidates(configs, current_version, source, target)
               /\ (pc' # "resolve") =>
                      \/ c = t
                      \/ Candidates(configs, current_version, source, target) = {}]_vars

\* the loop has ended at the target after as many iterations as there are
\* registered configs, three of them
C26_Witness ==
    /\ Resolved
    /\ Len(config_dir) = 3
    /\ Len(version_path) = 3
    /\ VersionNum(current_version) = VersionNum(target)
    /\ VersionNum(target) < VersionNum(source)

\* C27: the save dialog is opened, and the archive written, only after
\* process_version_conversion has applied every step of the plan and returned
\* success: the save location is asked for in no other case, success is
\* reported at that moment only, the archive changes only in the packaging
\* that follows, and after a failure or an exception nothing is asked for or
\* written any more.
C27_ArchiveOnlyAfterSuccess ==
    [][/\ (pc' = "ask" /\ pc # "ask") =>
              /\ success'
              /\ applied' = [i \in 1..Len(operations') |-> operations'[i].version]
              /\ dialog' = "none"
       /\ (success' # success) => (success' /\ pc' = "ask")
       /\ (archive' # archive) =>
              /\ pc = "package"
              /\ success
              /\ applied = PlanVersions
              /\ dialog = "none"
       /\ (pc = "except" \/ (pc = "finally" /\ ~archive.written)) =>
              /\ archive' = archive
              /\ pc' \notin {"ask", "package"}]_vars

\* process_version_conversion gave up in its second step, after the first
\* one had been applied; on_confirm has returned without an archive
C27_Witness ==
    /\ pc = "done"
    /\ Len(operations) = 2
    /\ Len(applied) = 1
    /\ ~success
    /\ dialog = "error"
    /\ ~archive.written

\* C28: what an earlier run left in the temporary directory does not reach a
\* new conversion: from the pack_format rewrite until the first plan step
\* starts, the working tree holds exactly the files of the source pack, each
\* with the pack's content, except that a pack.mcmeta holds the format code
\* of the target version.
C28_StaleTempDoesNotLeak ==
    (\/ pc \in {"convert", "resolve"}
     \/ (pc = "removal" /\ op_index = 1)) =>
        /\ temp_dir.exists
        /\ DOMAIN temp_dir.tree = DOMAIN pack
        /\ \A k \in DOMAIN pack :
              temp_dir.tree[k] = IF k = PackMcmeta
                                 THEN Mcmeta(VersionFormat(target))
                                 ELSE pack[k]

\* the first plan step starts on a copy of a pack with files of its own,
\* where the temporary directory had held a file of an earlier run
C28_Witness ==
    /\ pc = "removal"
    /\ op_index = 1
    /\ temp_before.exists
    /\ \E k \in DOMAIN temp_before.tree : k \notin DOMAIN pack
    /\ \E k \in DOMAIN pack : k # PackMcmeta
    /\ PackMcmeta \in DOMAIN pack
    /\ DOMAIN temp_dir.tree = DOMAIN pack

\* C29: the table of on_confirm and the table of
\* get_version_from_pack_format are inverses of each other: a pack whose
\* format code the detection table holds is detected as a version to which
\* the packaging table gives that code, and an archive made for a target
\* version of the packaging table is detected as that version when it is
\* opened again.
C29_TablesAreInverses ==
    /\ (/\ pc \notin {"open", "reopened", "rejected"}
        /\ IsFile(pack, PackMcmeta)
        /\ pack[PackMcmeta].kind = "json"
        /\ pack[PackMcmeta].pack_format \in MappedFormats) =>
            /\ detected_version \in MappedVersions
            /\ VersionFormat(detected_version) = pack[PackMcmeta].pack_format
    /\ (pc = "reopened" /\ target \in MappedVersions) =>
            /\ ArchiveTree[PackMcmeta].pack_format \in MappedFormats
            /\ detected_version = target
            /\ get_version_from_pack_format(VersionFormat(target)) = target

\* a pack of code 13 (detected as 1.19.4) was converted to 1.20.4 and the
\* archive, which holds the code 26, is detected as 1.20.4
C29_Witness ==
    /\ pc = "reopened"
    /\ pack[PackMcmeta] = Mcmeta(13)
    /\ target = V_1_20_4
    /\ ArchiveTree[PackMcmeta] = Mcmeta(26)
    /\ detected_version = V_1_20_4

\* C30: the sidecar walk leaves no orphan: every sidecar file a step has
\* copied into the working tree lies next to an image file that is in the
\* working tree when the step ends.
C30_NoOrphanSidecar ==
    [][(pc = "sidecar" /\ pc' # "finally") =>
           LET op == operations[op_index]
               after == temp_dir'.tree
           IN  \A f \in SidecarFiles(op.version) :
                   LET k == HostKey(os_sep, ImageOf(f)) \o <<McmetaSuffix>>
                   IN  (k \in DOMAIN after /\ after[k] = Sidecar(op.version)) =>
                           Exists(os_sep, after, HostKey(os_sep, ImageOf(f)))]_vars

=============================================================================
